---- MODULE Spec2Model ----
(***************************************************************************)
(* Real-time coordination hub of HackVoice (src/server/server.ts, the      *)
(* revision of lines 1-245): the presence registry kept in the three       *)
(* process-wide maps socketRoomMap, userSockets and roomPresence, the      *)
(* signaling relay (offer / answer / ice_candidate) and the Socket.IO      *)
(* room broadcasts issued by the join_room, leave_room and disconnect      *)
(* handlers.  One action models one handler run to completion (the hub is  *)
(* single-threaded and these handlers never await).                        *)
(***************************************************************************)
EXTENDS Integers, Sequences, FiniteSets, TLC

(* ------------------------------ bounds --------------------------------- *)
MaxSessions == 2
MaxUsers == 2
MaxRooms == 2
MaxRequests == 2   \* database requests issued by the hub (SpecChat)
MaxHubSteps == 4   \* connection / join / leave / disconnect events (SpecChat)
MaxPcs == 2        \* RTCPeerConnections one client creates (SpecClient)
MaxInbox == 2      \* hub events a client has yet to handle (SpecClient)
MaxMessages == 2   \* entries a client appends to its message list

SessionPool == <<"s1", "s2", "s3", "s4", "s5">>
UserPool == <<"A", "B", "C", "D">>
RoomPool == <<"r1", "r2", "r3", "r4">>

Sessions == {SessionPool[i] : i \in 1..MaxSessions}
Users == {UserPool[i] : i \in 1..MaxUsers}
Rooms == {RoomPool[i] : i \in 1..MaxRooms}
DisplayNames == {"dn"}
Payloads == {"sdp"}
SignalKinds == {"offer", "answer", "ice_candidate"}
Contents == {"hello"}

(* ------------------------------- state --------------------------------- *)
VARIABLES
  connected,      \* socket ids whose connection is open
  closed,         \* socket ids whose disconnect handler has run
  sids,           \* Socket.IO adapter: sids[s] = rooms socket s has joined
  socketRoomMap,  \* socket id -> [roomCode, userId]      (a JS object)
  userSockets,    \* user id -> socket id                 (a JS object)
  roomPresence,   \* room code -> Set of user ids, in insertion order
  emitted,        \* the events emitted by the last handler, in order
  lastEvent,      \* the event the last handler received
  pre,            \* the three maps as they were when that handler started
  messages,       \* the rows of the database table `messages`, oldest first
  requests,       \* the database requests the hub has issued, oldest first
  chatOrder,      \* the chat broadcasts so far, [request, recipients], in emit order
  hubSteps,       \* connection / join / leave / disconnect events so far
  client,         \* user id -> the state of that user's ChatRoom component
  inbox,          \* user id -> the hub events its socket has yet to handle
  afterLeave      \* user id -> the events it emitted after leaveRoom began

hubVars == <<connected, closed, sids, socketRoomMap, userSockets, roomPresence,
             emitted, lastEvent, pre>>
chatVars == <<messages, requests, chatOrder, hubSteps>>
clientVars == <<client, inbox, afterLeave>>
vars == <<connected, closed, sids, socketRoomMap, userSockets, roomPresence,
          emitted, lastEvent, pre, messages, requests, chatOrder, hubSteps,
          client, inbox, afterLeave>>

(* ------------------------ JS objects and Sets -------------------------- *)
\* A JS object is a function whose domain is its set of own keys.
EmptyObject == [k \in {} |-> k]
Has(obj, k) == k \in DOMAIN obj
Put(obj, k, v) == [x \in (DOMAIN obj) \cup {k} |-> IF x = k THEN v ELSE obj[x]]
Delete(obj, k) == [x \in (DOMAIN obj) \ {k} |-> obj[x]]

\* A JS Set is a duplicate-free sequence in insertion order.
Elems(seq) == {seq[i] : i \in 1..Len(seq)}
SetAddAppendsAlways(set, v) == Append(set, v)
SetAdd(set, v) == IF v \in Elems(set) THEN set ELSE Append(set, v)
SetDelete(set, v) == SelectSeq(set, LAMBDA x : x # v)
NoDuplicates(seq) == \A i, j \in 1..Len(seq) : seq[i] = seq[j] => i = j

Registry == [socketRoomMap |-> socketRoomMap, userSockets |-> userSockets,
             roomPresence |-> roomPresence]

(* --------------------------- Socket.IO rooms --------------------------- *)
\* io.to(name) / socket.to(name): the open sockets in `conn` that are in room
\* `name` of `adapter`; each socket is implicitly the only member of the room
\* named by its own id.  Room codes and socket ids are distinct strings.
SocketsIn(adapter, conn, name) ==
  {t \in conn : name = t \/ name \in adapter[t]}
InRoom(name) == SocketsIn(sids, connected, name)

\* Array.from(roomPresence[roomCode] || [])
PresenceArray(presenceMap, roomCode) ==
  IF Has(presenceMap, roomCode) THEN presenceMap[roomCode] ELSE <<>>

Emit(event, name, recipients, payload) ==
  [event |-> event, room |-> name, recipients |-> recipients,
   payload |-> payload]

(* ------------------------------- Init ---------------------------------- *)
\* a ChatRoom component that has not been mounted
Unmounted ==
  [phase |-> "unmounted", socket |-> "none", joined |-> FALSE,
   mic |-> "idle", localStream |-> FALSE, recognition |-> FALSE,
   recog |-> "none", pending |-> "none", debounce |-> FALSE,
   online |-> <<>>, links |-> EmptyObject, pcs |-> <<>>, timers |-> {},
   handled |-> "none", held |-> 0, utterance |-> "closed", promoted |-> <<>>,
   recogs |-> {}, timerSocket |-> "none", audio |-> FALSE, stale |-> 0,
   msgs |-> <<>>, candidate |-> [outcome |-> "none", pc |-> 0]]

Init ==
  /\ connected = {}
  /\ closed = {}
  /\ sids = [s \in Sessions |-> {}]
  /\ socketRoomMap = EmptyObject
  /\ userSockets = EmptyObject
  /\ roomPresence = EmptyObject
  /\ emitted = <<>>
  /\ lastEvent = [kind |-> "none"]
  /\ pre = [socketRoomMap |-> EmptyObject, userSockets |-> EmptyObject,
            roomPresence |-> EmptyObject]
  /\ messages = <<>>
  /\ requests = <<>>
  /\ chatOrder = <<>>
  /\ hubSteps = 0
  /\ client = [u \in Users |-> Unmounted]
  /\ inbox = [u \in Users |-> <<>>]
  /\ afterLeave = [u \in Users |-> {}]

(* ----------------------------- connection ------------------------------ *)
\* io.on("connection"): a fresh socket id; ids are never reused, so they are
\* handed out in pool order.
Connection(s) ==
  /\ s \notin connected \cup closed
  /\ \A i, j \in 1..MaxSessions :
       (SessionPool[j] = s /\ i < j) => SessionPool[i] \in connected \cup closed
  /\ connected' = connected \cup {s}
  /\ emitted' = <<>>
  /\ lastEvent' = [kind |-> "connection", socket |-> s]
  /\ pre' = Registry
  /\ UNCHANGED <<closed, sids, socketRoomMap, userSockets, roomPresence>>

(* ------------------------------ join_room ------------------------------ *)
JoinData == [roomCode : Rooms, userId : Users, displayName : DisplayNames]

\* The two emits of the handler: presence_update through io.to(roomCode),
\* participant_joined through socket.to(roomCode), both after socket.join.
JoinEmitsNotifiesJoiner(s, data) ==
  LET joined == [sids EXCEPT ![s] = @ \cup {data.roomCode}]
      presence == SetAdd(PresenceArray(roomPresence, data.roomCode),
                         data.userId)
  IN << Emit("presence_update", data.roomCode,
             SocketsIn(joined, connected, data.roomCode), presence),
        Emit("participant_joined", data.roomCode,
             SocketsIn(joined, connected, data.roomCode),
             [participant |-> [id |-> data.userId,
                               displayName |-> data.displayName]]) >>

JoinEmits(s, data) ==
  LET joined == [sids EXCEPT ![s] = @ \cup {data.roomCode}]
      presence == SetAdd(PresenceArray(roomPresence, data.roomCode),
                         data.userId)
  IN << Emit("presence_update", data.roomCode,
             SocketsIn(joined, connected, data.roomCode), presence),
        Emit("participant_joined", data.roomCode,
             SocketsIn(joined, connected, data.roomCode) \ {s},
             [participant |-> [id |-> data.userId,
                               displayName |-> data.displayName]]) >>

\* a join that re-inserts the user at the end of the presence set
JoinRoomMovesToEnd(s, data) ==
  LET roomCode == data.roomCode
      userId == data.userId
      presence == Append(SetDelete(PresenceArray(roomPresence, roomCode),
                                   userId), userId)
      joined == [sids EXCEPT ![s] = @ \cup {roomCode}]
  IN
  /\ s \in connected
  /\ socketRoomMap' = Put(socketRoomMap, s,
                          [roomCode |-> roomCode, userId |-> userId])
  /\ userSockets' = Put(userSockets, userId, s)
  /\ sids' = joined
  /\ roomPresence' = Put(roomPresence, roomCode, presence)
  /\ emitted' = JoinEmits(s, data)
  /\ lastEvent' = [kind |-> "join_room", socket |-> s, data |-> data]
  /\ pre' = Registry
  /\ UNCHANGED <<connected, closed>>

JoinRoom(s, data) ==
  LET roomCode == data.roomCode
      userId == data.userId
      presence == SetAdd(PresenceArray(roomPresence, roomCode), userId)
      joined == [sids EXCEPT ![s] = @ \cup {roomCode}]
  IN
  /\ s \in connected
  /\ socketRoomMap' = Put(socketRoomMap, s,
                          [roomCode |-> roomCode, userId |-> userId])
  /\ userSockets' = Put(userSockets, userId, s)
  /\ sids' = joined
  /\ roomPresence' = Put(roomPresence, roomCode, presence)
  /\ emitted' = JoinEmits(s, data)
  /\ lastEvent' = [kind |-> "join_room", socket |-> s, data |-> data]
  /\ pre' = Registry
  /\ UNCHANGED <<connected, closed>>

(* ---------------------- offer / answer / ice_candidate ----------------- *)
SignalData == [fromUserId : Users, targetUserId : Users, payload : Payloads]

\* What the handler of `kind`, run for socket s, emits for `data`: one event
\* to the room named by the resolved socket id, or nothing (a console.warn
\* only) when userSockets has no such key.
RelayEmitsToEveryone(s, kind, data) ==
  IF Has(userSockets, data.targetUserId)
  THEN << Emit(kind, userSockets[data.targetUserId], connected,
               [fromUserId |-> data.fromUserId, payload |-> data.payload]) >>
  ELSE <<>>

RelayEmitsErrorToSender(s, kind, data) ==
  IF Has(userSockets, data.targetUserId)
  THEN LET targetSocketId == userSockets[data.targetUserId]
       IN << Emit(kind, targetSocketId, InRoom(targetSocketId),
                  [fromUserId |-> data.fromUserId,
                   payload |-> data.payload]) >>
  ELSE << Emit("error", s, InRoom(s), [targetUserId |-> data.targetUserId]) >>

RelayEmits(s, kind, data) ==
  IF Has(userSockets, data.targetUserId)
  THEN LET targetSocketId == userSockets[data.targetUserId]
       IN << Emit(kind, targetSocketId, InRoom(targetSocketId),
                  [fromUserId |-> data.fromUserId,
                   payload |-> data.payload]) >>
  ELSE <<>>

RelayRegistersSender(s, kind, data) ==
  /\ s \in connected
  /\ emitted' = RelayEmits(s, kind, data)
  /\ userSockets' = Put(userSockets, data.fromUserId, s)
  /\ lastEvent' = [kind |-> kind, socket |-> s, data |-> data]
  /\ pre' = Registry
  /\ UNCHANGED <<connected, closed, sids, socketRoomMap, roomPresence>>

Relay(s, kind, data) ==
  /\ s \in connected
  /\ emitted' = RelayEmits(s, kind, data)
  /\ lastEvent' = [kind |-> kind, socket |-> s, data |-> data]
  /\ pre' = Registry
  /\ UNCHANGED <<connected, closed, sids, socketRoomMap, userSockets,
                 roomPresence>>

(* ------------------------------ leave_room ----------------------------- *)
\* The handler's single argument is whatever the client sent: a room code
\* string, or the object {roomCode, userId} that the client's leaveRoom emits.
LeaveArgs ==
  [type : {"string"}, roomCode : Rooms]
    \cup [type : {"object"}, roomCode : Rooms, userId : Users]

\* info.roomCode === roomCode (strict equality: a string never equals an object)
StrictEquals(str, arg) == arg.type = "string" /\ arg.roomCode = str

\* socket.leave(roomCode): removes the room of that name, if the socket is in
\* it; no room is named by an object.
SocketLeave(joinedRooms, arg) ==
  IF arg.type = "string" THEN joinedRooms \ {arg.roomCode} ELSE joinedRooms

\* if (info && info.roomCode === roomCode)
LeaveFound(s, arg) ==
  Has(socketRoomMap, s) /\ StrictEquals(socketRoomMap[s].roomCode, arg)

\* roomPresence after the handler: roomPresence[roomCode]?.delete(userId)
LeavePresence(s, arg) ==
  IF LeaveFound(s, arg) /\ Has(roomPresence, arg.roomCode)
  THEN Put(roomPresence, arg.roomCode,
           SetDelete(roomPresence[arg.roomCode], socketRoomMap[s].userId))
  ELSE roomPresence

LeaveBroadcast(s, arg) ==
  LET left == [sids EXCEPT ![s] = SocketLeave(@, arg)]
  IN Emit("presence_update", arg.roomCode,
          IF arg.type = "string"
          THEN SocketsIn(left, connected, arg.roomCode) ELSE {},
          PresenceArray(LeavePresence(s, arg), arg.roomCode))

LeaveEmitsOutsideIf(s, arg) == << LeaveBroadcast(s, arg) >>

LeaveEmits(s, arg) ==
  IF LeaveFound(s, arg) THEN << LeaveBroadcast(s, arg) >> ELSE <<>>

LeaveRoom(s, arg) ==
  /\ s \in connected
  /\ sids' = [sids EXCEPT ![s] = SocketLeave(@, arg)]
  /\ roomPresence' = LeavePresence(s, arg)
  /\ emitted' = LeaveEmits(s, arg)
  /\ IF LeaveFound(s, arg)
     THEN /\ socketRoomMap' = Delete(socketRoomMap, s)
          /\ userSockets' = Delete(userSockets, socketRoomMap[s].userId)
     ELSE UNCHANGED <<socketRoomMap, userSockets>>
  /\ lastEvent' = [kind |-> "leave_room", socket |-> s, arg |-> arg]
  /\ pre' = Registry
  /\ UNCHANGED <<connected, closed>>

(* ------------------------------ disconnect ----------------------------- *)
\* roomPresence after the handler: roomPresence[roomCode].delete(userId)
DisconnectPresence(s) ==
  IF Has(socketRoomMap, s) /\ Has(roomPresence, socketRoomMap[s].roomCode)
  THEN Put(roomPresence, socketRoomMap[s].roomCode,
           SetDelete(roomPresence[socketRoomMap[s].roomCode],
                     socketRoomMap[s].userId))
  ELSE roomPresence

\* Socket.IO has removed the socket from all its rooms when "disconnect"
\* fires, so the handler's broadcast does not reach the socket itself.
DisconnectEmitsBeforeDelete(s) ==
  IF Has(socketRoomMap, s) /\ Has(roomPresence, socketRoomMap[s].roomCode)
  THEN << Emit("presence_update", socketRoomMap[s].roomCode,
               SocketsIn(sids, connected \ {s}, socketRoomMap[s].roomCode),
               PresenceArray(roomPresence, socketRoomMap[s].roomCode)) >>
  ELSE <<>>

DisconnectEmits(s) ==
  IF Has(socketRoomMap, s) /\ Has(roomPresence, socketRoomMap[s].roomCode)
  THEN << Emit("presence_update", socketRoomMap[s].roomCode,
               SocketsIn(sids, connected \ {s}, socketRoomMap[s].roomCode),
               PresenceArray(DisconnectPresence(s),
                             socketRoomMap[s].roomCode)) >>
  ELSE <<>>

Disconnect(s) ==
  /\ s \in connected
  /\ connected' = connected \ {s}
  /\ closed' = closed \cup {s}
  /\ sids' = [sids EXCEPT ![s] = {}]
  /\ roomPresence' = DisconnectPresence(s)
  /\ emitted' = DisconnectEmits(s)
  /\ IF Has(socketRoomMap, s)
     THEN /\ socketRoomMap' = Delete(socketRoomMap, s)
          /\ userSockets' = Delete(userSockets, socketRoomMap[s].userId)
     ELSE UNCHANGED <<socketRoomMap, userSockets>>
  /\ lastEvent' = [kind |-> "disconnect", socket |-> s]
  /\ pre' = Registry

(* -------------------------------- Next --------------------------------- *)
Next ==
  \/ \E s \in Sessions : Connection(s) /\ UNCHANGED <<chatVars, clientVars>>
  \/ \E s \in Sessions, data \in JoinData :
       JoinRoom(s, data) /\ UNCHANGED <<chatVars, clientVars>>
  \/ \E s \in Sessions, kind \in SignalKinds, data \in SignalData :
       Relay(s, kind, data) /\ UNCHANGED <<chatVars, clientVars>>
  \/ \E s \in Sessions, arg \in LeaveArgs :
       LeaveRoom(s, arg) /\ UNCHANGED <<chatVars, clientVars>>
  \/ \E s \in Sessions : Disconnect(s) /\ UNCHANGED <<chatVars, clientVars>>

Spec == Init /\ [][Next]_vars

(* ====================== chat and message history ======================= *)
(* The chat_message and fetch_messages handlers await a database request,  *)
(* so each is two steps: the event arrives and the request is issued; the  *)
(* request settles and the handler resumes.  Requests in flight settle in  *)
(* any order.  Run under SpecChat, with the registry events of the hub     *)
(* limited to MaxHubSteps.                                                 *)
ChatData == [roomCode : Rooms, userId : Users, message : Contents]
SubtitleData == [roomCode : Rooms, userId : Users, text : Contents]
InsertOutcomes == {"ok", "error", "empty", "throw"}
SelectOutcomes == {"ok", "error", "throw"}

\* the row the table stores for an insert: created_at defaults to the
\* database clock, here the position of the row
InsertedRow(data) ==
  [room_code |-> data.roomCode, user_id |-> data.userId,
   content |-> data.message, created_at |-> Len(messages) + 1]

\* .select("*").eq("room_code", roomCode).order("created_at")
RowsOf(roomCode) == SelectSeq(messages, LAMBDA row : row.room_code = roomCode)

Pending(i) == i \in 1..Len(requests) /\ requests[i].state = "pending"
Settle(i, outcome) == [requests EXCEPT ![i].state = outcome]

\* socket.on("chat_message"): up to the await of the insert
ChatMessage(s, data) ==
  /\ s \in connected
  /\ Len(requests) < MaxRequests
  /\ requests' = Append(requests, [op |-> "insert", socket |-> s,
                                   data |-> data, state |-> "pending"])
  /\ emitted' = <<>>
  /\ lastEvent' = [kind |-> "chat_message", socket |-> s, data |-> data]
  /\ pre' = Registry
  /\ UNCHANGED <<connected, closed, sids, socketRoomMap, userSockets,
                 roomPresence, messages, chatOrder, hubSteps>>

\* what the resumed chat_message handler emits
InsertEmitsSubmitted(i, outcome) ==
  << Emit("chat_message", requests[i].data.roomCode,
          InRoom(requests[i].data.roomCode),
          [userId |-> requests[i].data.userId,
           message |-> requests[i].data.message,
           timestamp |-> Len(messages) + 1]) >>

InsertEmits(i, outcome) ==
  IF outcome = "ok"
  THEN LET row == InsertedRow(requests[i].data)
       IN << Emit("chat_message", requests[i].data.roomCode,
                  InRoom(requests[i].data.roomCode),
                  [userId |-> row.user_id, message |-> row.content,
                   timestamp |-> row.created_at]) >>
  ELSE <<>>

\* the insert of request i settles and the chat_message handler resumes
InsertDone(i, outcome) ==
  /\ Pending(i)
  /\ requests[i].op = "insert"
  /\ messages' = IF outcome \in {"ok", "empty"}
                 THEN Append(messages, InsertedRow(requests[i].data))
                 ELSE messages
  /\ requests' = Settle(i, outcome)
  /\ emitted' = InsertEmits(i, outcome)
  /\ chatOrder' = IF InsertEmits(i, outcome) # <<>>
                  THEN Append(chatOrder,
                              [request |-> i,
                               recipients |-> InsertEmits(i, outcome)[1].recipients])
                  ELSE chatOrder
  /\ lastEvent' = [kind |-> "insert_done", request |-> i, outcome |-> outcome]
  /\ pre' = Registry
  /\ UNCHANGED <<connected, closed, sids, socketRoomMap, userSockets,
                 roomPresence, hubSteps>>

\* socket.on("fetch_messages"): up to the await of the select
FetchMessages(s, roomCode) ==
  /\ s \in connected
  /\ Len(requests) < MaxRequests
  /\ requests' = Append(requests, [op |-> "select", socket |-> s,
                                   data |-> [roomCode |-> roomCode],
                                   state |-> "pending"])
  /\ emitted' = <<>>
  /\ lastEvent' = [kind |-> "fetch_messages", socket |-> s,
                   data |-> [roomCode |-> roomCode]]
  /\ pre' = Registry
  /\ UNCHANGED <<connected, closed, sids, socketRoomMap, userSockets,
                 roomPresence, messages, chatOrder, hubSteps>>

\* what the resumed fetch_messages handler emits: socket.emit reaches the
\* requesting socket alone, and nobody once that socket has closed
SelectEmitsToRoom(i, outcome) ==
  IF outcome = "ok"
  THEN << Emit("chat_history", requests[i].data.roomCode,
               InRoom(requests[i].data.roomCode),
               RowsOf(requests[i].data.roomCode)) >>
  ELSE <<>>

SelectEmits(i, outcome) ==
  IF outcome = "ok"
  THEN << Emit("chat_history", requests[i].socket,
               InRoom(requests[i].socket),
               RowsOf(requests[i].data.roomCode)) >>
  ELSE <<>>

\* the select of request i settles and the fetch_messages handler resumes
SelectDone(i, outcome) ==
  /\ Pending(i)
  /\ requests[i].op = "select"
  /\ requests' = Settle(i, outcome)
  /\ emitted' = SelectEmits(i, outcome)
  /\ lastEvent' = [kind |-> "select_done", request |-> i, outcome |-> outcome]
  /\ pre' = Registry
  /\ UNCHANGED <<connected, closed, sids, socketRoomMap, userSockets,
                 roomPresence, messages, chatOrder, hubSteps>>

\* a "subtitle" event from a client: io.on("connection") registers no handler
\* for it, so the hub ignores the event
Subtitle(s, data) ==
  /\ s \in connected
  /\ emitted' = <<>>
  /\ lastEvent' = [kind |-> "subtitle", socket |-> s, data |-> data]
  /\ pre' = Registry
  /\ UNCHANGED <<connected, closed, sids, socketRoomMap, userSockets,
                 roomPresence, messages, requests, chatOrder, hubSteps>>

\* a registry event of the hub, counted
HubStep(A) ==
  /\ hubSteps < MaxHubSteps
  /\ A
  /\ hubSteps' = hubSteps + 1
  /\ UNCHANGED <<messages, requests, chatOrder, client, inbox, afterLeave>>

\* leave_room with a room code string (the object form changes nothing)
LeaveStrings == [type : {"string"}, roomCode : Rooms]

NextChat ==
  \/ \E s \in Sessions : HubStep(Connection(s))
  \/ \E s \in Sessions, data \in JoinData : HubStep(JoinRoom(s, data))
  \/ \E s \in Sessions, arg \in LeaveStrings : HubStep(LeaveRoom(s, arg))
  \/ \E s \in Sessions : HubStep(Disconnect(s))
  \/ \E s \in Sessions, data \in ChatData :
       ChatMessage(s, data) /\ UNCHANGED clientVars
  \/ \E i \in 1..MaxRequests, outcome \in InsertOutcomes :
       InsertDone(i, outcome) /\ UNCHANGED clientVars
  \/ \E s \in Sessions, roomCode \in Rooms :
       FetchMessages(s, roomCode) /\ UNCHANGED clientVars
  \/ \E i \in 1..MaxRequests, outcome \in SelectOutcomes :
       SelectDone(i, outcome) /\ UNCHANGED clientVars

SpecChat == Init /\ [][NextChat]_vars

\* the hub with the registry events and the subtitle events of its clients
NextSubtitle ==
  \/ \E s \in Sessions : HubStep(Connection(s))
  \/ \E s \in Sessions, data \in JoinData : HubStep(JoinRoom(s, data))
  \/ \E s \in Sessions, arg \in LeaveStrings : HubStep(LeaveRoom(s, arg))
  \/ \E s \in Sessions : HubStep(Disconnect(s))
  \/ \E s \in Sessions, data \in SubtitleData :
       Subtitle(s, data) /\ UNCHANGED clientVars

SpecSubtitle == Init /\ [][NextSubtitle]_vars

(* ========================= the ChatRoom client ========================= *)
(* The ChatRoom component of src/unnamed/part_007 (lines 53-1375) of one    *)
(* user, talking to the hub above; the other users of the room are remote   *)
(* peers, known by the events their own ChatRoom sends through the hub.     *)
(* The microphone preference is saved as enabled and is not toggled, and    *)
(* the socket does not drop.  An event a client emits is handled by the hub *)
(* in the same step; what the hub emits queues in the inbox of the          *)
(* component.  Every await of a handler is a step boundary.  Run under      *)
(* SpecClient.                                                              *)
ClientRoom == RoomPool[1]
Transcripts == {"hi", "hello there"}
TextLength == ("hi" :> 2) @@ ("hello there" :> 11)
NegotiationOutcomes == {"ok", "throw"}
MicOutcomes == {"granted", "denied"}
LeaveEvents == {"offer", "answer", "ice_candidate", "subtitle", "chat_message"}

\* localStorage "isAudioEnabled", read when the component mounts: the
\* initial value of the isAudioEnabled state, which `audio` follows, and the
\* value that the closures made while the audio is on keep
isAudioEnabled == TRUE

Mounted(u) == client[u].phase \in {"mounted", "leaving"}
\* socket && socket.connected
SocketConnected(u) == client[u].socket \in connected

\* the events of `ems` that reach the socket of each mounted client, queued
\* behind what that client has yet to handle
Deliver(ems) ==
  [u \in Users |->
     IF Mounted(u)
     THEN inbox[u] \o
          [i \in 1..Len(SelectSeq(ems, LAMBDA e : client[u].socket \in e.recipients))
             |-> LET e == SelectSeq(ems, LAMBDA x : client[u].socket \in x.recipients)[i]
                 IN [event |-> e.event, payload |-> e.payload]]
     ELSE inbox[u]]

\* the ghost log of what a client emits once its leaveRoom has begun
Sent(u, kind) ==
  IF client[u].phase = "leaving"
  THEN [afterLeave EXCEPT ![u] = @ \cup {kind}]
  ELSE afterLeave

\* the socket in the closure of the handlers and continuations that belong
\* to connection k: the socket state of the render that registered them.
\* `stale` counts the connections made before the socket effect replaced
\* the socket; what they still run holds the socket that was disconnected.
PcSocket(c, k) == IF k <= c.stale THEN "none" ELSE c.socket

\* setMessages(prev => [...prev, newMsg])
AddMessage(c, userId, content) ==
  [c EXCEPT !.msgs = Append(@, [user_id |-> userId, content |-> content])]

\* pc.close(), which also stops the senders of the connection
ClosePc(c, k) == [c EXCEPT !.pcs[k].open = FALSE, !.pcs[k].track = "none"]

\* the track of each connection, with `from` replaced by `to`: "current"
\* is a track of the stream localStreamRef refers to, "older" a track of a
\* stream it referred to before and nobody stopped, "ended" a stopped track
Retrack(pcs, from, to) ==
  [k \in 1..Len(pcs) |-> IF pcs[k].track = from
                         THEN [pcs[k] EXCEPT !.track = to] ELSE pcs[k]]

\* getMicrophoneStream returned a stream and localStreamRef.current is set
\* to it, whatever it held
TakeStream(c) ==
  [c EXCEPT !.localStream = TRUE, !.held = @ + 1,
            !.pcs = Retrack(@, "current", "older")]

\* localStreamRef.current.getTracks().forEach(track => pc.addTrack(...)) on
\* the connection made last
AddTracks(c) == [c EXCEPT !.pcs[Len(c.pcs)].track = "current"]

\* createPeerConnection: closes the connection stored for the target, if any
\* (its entry stays), and makes a new one, which it does not store
CreatePeerConnection(c, targetUserId, role, stage) ==
  LET d == IF Has(c.links, targetUserId)
           THEN ClosePc(c, c.links[targetUserId]) ELSE c
  IN [d EXCEPT !.pcs = Append(@, [target |-> targetUserId, role |-> role,
                                  open |-> TRUE, stage |-> stage,
                                  track |-> "none"])]

\* initiatePeerConnection, up to its first await: the new connection is
\* stored and createOffer is pending
InitiatePeerConnection(c, targetUserId, socketConnected) ==
  IF ~c.localStream \/ ~socketConnected
  THEN c
  ELSE LET d == AddTracks(CreatePeerConnection(c, targetUserId, "initiator",
                                               "offering"))
       IN [d EXCEPT !.links = Put(@, targetUserId, Len(d.pcs))]

\* initSpeechRecognition: recog.start() and setRecognition(recog).  The
\* handlers of the recogniser emit on the `socket` of the render that made
\* this initSpeechRecognition, `closure`; `recogs` holds the closure sockets
\* of the recognisers started so far.
InitSpeechRecognition(c, closure) ==
  IF isAudioEnabled
  THEN [c EXCEPT !.recog = "running", !.recognition = TRUE,
                 !.recogs = @ \cup {closure}]
  ELSE c

\* closeAllPeerConnections: closes the stored connections only, and stops
\* the tracks of the stream localStreamRef refers to
CloseAllPeerConnections(c) ==
  [c EXCEPT !.pcs = [k \in 1..Len(c.pcs) |->
                       IF \E t \in DOMAIN c.links : c.links[t] = k
                       THEN [c.pcs[k] EXCEPT !.open = FALSE, !.track = "none"]
                       ELSE Retrack(c.pcs, "current", "ended")[k]],
            !.links = EmptyObject,
            !.localStream = FALSE,
            !.held = IF c.localStream THEN c.held - 1 ELSE c.held,
            !.pending = "none",
            !.debounce = FALSE]

\* userIds.forEach of handlePresenceUpdate, from index i on
RECURSIVE ConnectNewUsers(_, _, _, _, _)
ConnectNewUsers(c, u, userIds, i, socketConnected) ==
  IF i > Len(userIds)
  THEN c
  ELSE ConnectNewUsers(
         IF userIds[i] # u /\ ~Has(c.links, userIds[i])
         THEN InitiatePeerConnection(c, userIds[i], socketConnected) ELSE c,
         u, userIds, i + 1, socketConnected)

HandlePresenceUpdate(c, u, userIds, socketConnected) ==
  LET d == [c EXCEPT !.online = userIds]
  IN IF d.audio /\ d.localStream
     THEN ConnectNewUsers(d, u, userIds, 1, socketConnected)
     ELSE d

\* the setTimeout of handleParticipantJoined; its callback is InitiateTimer
HandleParticipantJoined(c, u, data) ==
  LET d == [c EXCEPT !.online = SetAdd(@, data.participant.id)]
  IN IF d.audio /\ d.localStream /\ data.participant.id # u
     THEN [d EXCEPT !.timers = @ \cup {data.participant.id}]
     ELSE d

HandleParticipantLeft(c, data) ==
  LET d == [c EXCEPT !.online = SetDelete(@, data.userId)]
  IN IF Has(d.links, data.userId)
     THEN [ClosePc(d, d.links[data.userId])
             EXCEPT !.links = Delete(@, data.userId)]
     ELSE d

\* handleOffer, up to its first await: getMicrophoneStream when there is no
\* local stream (the connection is not created yet), else the negotiation of
\* a new connection, which is stored only once the answer is sent
HandleOffer(c, data) ==
  IF ~c.audio
  THEN c
  ELSE IF ~c.localStream
       THEN [c EXCEPT !.pcs = Append(@, [target |-> data.fromUserId,
                                         role |-> "passive", open |-> FALSE,
                                         stage |-> "mic", track |-> "none"])]
       ELSE AddTracks(CreatePeerConnection(c, data.fromUserId, "passive",
                                           "answering"))

\* handleAnswer: setRemoteDescription(answer) succeeds on an open connection
\* that has sent its offer, and rejects otherwise, which arms the retry timer
HandleAnswer(c, data) ==
  IF Has(c.links, data.fromUserId)
  THEN LET k == c.links[data.fromUserId]
       IN IF c.pcs[k].open /\ c.pcs[k].stage = "offered"
          THEN [c EXCEPT !.pcs[k].stage = "stable"]
          ELSE [c EXCEPT !.timers = @ \cup {data.fromUserId}]
  ELSE c

\* handleIceCandidate: addIceCandidate on the connection stored for the
\* sender; it rejects (the catch logs) on a closed connection and on one
\* without a remote description; without a stored connection the candidate
\* is dropped with a console.warn.  `candidate` records what became of the
\* last candidate: "added" to connection pc, "rejected" by it, or "dropped".
HandleIceCandidate(c, data) ==
  IF Has(c.links, data.fromUserId)
  THEN LET k == c.links[data.fromUserId]
       IN IF c.pcs[k].open /\ c.pcs[k].stage \in {"answered", "stable", "connfailed"}
          THEN [c EXCEPT !.candidate = [outcome |-> "added", pc |-> k]]
          ELSE [c EXCEPT !.candidate = [outcome |-> "rejected", pc |-> k]]
  ELSE [c EXCEPT !.candidate = [outcome |-> "dropped", pc |-> 0]]

\* the socket.on handlers of the component
\* handleChatMessage: the echo of the client's own message is not added
HandleChatMessage(c, u, data) ==
  IF data.userId # u THEN AddMessage(c, data.userId, data.message) ELSE c

Handle(c, u, msg, socketConnected) ==
  CASE msg.event = "presence_update" ->
         HandlePresenceUpdate(c, u, msg.payload, socketConnected)
    [] msg.event = "participant_joined" ->
         HandleParticipantJoined(c, u, msg.payload)
    [] msg.event = "participant_left" -> HandleParticipantLeft(c, msg.payload)
    [] msg.event = "offer" -> HandleOffer(c, msg.payload)
    [] msg.event = "answer" -> HandleAnswer(c, msg.payload)
    [] msg.event = "ice_candidate" -> HandleIceCandidate(c, msg.payload)
    [] msg.event = "chat_message" -> HandleChatMessage(c, u, msg.payload)
    [] OTHER -> c

\* the component mounts: io(socketUrl) connects, and the audio effect starts
\* initializeAudioConnections, which waits for the microphone
Mount(u, s) ==
  /\ client[u].phase = "unmounted"
  /\ Connection(s)
  /\ client' = [client EXCEPT ![u].phase = "mounted", ![u].socket = s,
                              ![u].audio = isAudioEnabled,
                              ![u].mic = IF isAudioEnabled THEN "pending"
                                         ELSE "idle"]
  /\ UNCHANGED <<chatVars, inbox, afterLeave>>

\* initializeAudioConnections resumes with the stream, which it assigns to
\* localStreamRef whatever that held; the onlineUserIds and the socket of
\* its closure are those of the first render, none and null: the audio
\* effect runs it once, with the functions of that render.  `held` counts
\* the streams that getMicrophoneStream returned and whose tracks nobody
\* has stopped.
MicGranted(u) ==
  /\ Mounted(u)
  /\ client[u].mic = "pending"
  /\ client' = [client EXCEPT
                  ![u] = InitSpeechRecognition(
                           TakeStream([@ EXCEPT !.mic = "idle"]), "none")]
  /\ UNCHANGED <<hubVars, chatVars, inbox, afterLeave>>

\* joinRoom resumes after POST /api/rooms/join and emits join_room
ClientJoin(u) ==
  LET data == [roomCode |-> ClientRoom, userId |-> u, displayName |-> "dn"]
  IN /\ Mounted(u)
     /\ ~client[u].joined
     /\ JoinRoom(client[u].socket, data)
     /\ inbox' = Deliver(JoinEmits(client[u].socket, data))
     /\ client' = [client EXCEPT ![u].joined = TRUE]
     /\ UNCHANGED <<chatVars, afterLeave>>

\* the socket hands the next hub event to its handler
Receive(u) ==
  LET c == Handle(client[u], u, Head(inbox[u]), SocketConnected(u))
  IN /\ Mounted(u)
     /\ inbox[u] # <<>>
     /\ Len(c.pcs) <= MaxPcs
     /\ Len(c.msgs) <= MaxMessages
     /\ client' = [client EXCEPT
                     ![u] = [c EXCEPT !.handled = Head(inbox[u]).event]]
     /\ inbox' = [inbox EXCEPT ![u] = Tail(@)]
     /\ UNCHANGED <<hubVars, chatVars, afterLeave>>

\* a setTimeout callback that calls initiatePeerConnection(target): after
\* participant_joined, a failed connection or a rejected answer
InitiateTimer(u, target) ==
  LET c == InitiatePeerConnection([client[u] EXCEPT !.timers = @ \ {target}],
                                  target, SocketConnected(u))
  IN /\ Mounted(u)
     /\ target \in client[u].timers
     /\ Len(c.pcs) <= MaxPcs
     /\ client' = [client EXCEPT ![u] = c]
     /\ UNCHANGED <<hubVars, chatVars, inbox, afterLeave>>

\* initiatePeerConnection resumes after createOffer and setLocalDescription;
\* both reject on a closed connection
OfferReady(u, k, outcome) ==
  LET c == client[u]
      data == [fromUserId |-> u, targetUserId |-> c.pcs[k].target,
               payload |-> "sdp"]
  IN /\ Mounted(u)
     /\ k \in 1..Len(c.pcs)
     /\ c.pcs[k].stage = "offering"
     /\ IF ~c.pcs[k].open \/ outcome = "throw"
        THEN /\ client' = [client EXCEPT ![u].pcs[k].stage = "failed"]
             /\ UNCHANGED <<hubVars, inbox, afterLeave>>
        ELSE IF PcSocket(c, k) \in connected
        THEN /\ Relay(PcSocket(c, k), "offer", data)
             /\ inbox' = Deliver(RelayEmits(PcSocket(c, k), "offer", data))
             /\ client' = [client EXCEPT ![u].pcs[k].stage = "offered"]
             /\ afterLeave' = Sent(u, "offer")
        ELSE /\ client' = [client EXCEPT
                             ![u] = [ClosePc(c, k) EXCEPT
                                       !.pcs[k].stage = "failed",
                                       !.links = Delete(@, c.pcs[k].target)]]
             /\ UNCHANGED <<hubVars, inbox, afterLeave>>
     /\ UNCHANGED chatVars

\* handleOffer resumes after getMicrophoneStream
OfferMic(u, k, outcome) ==
  LET c == client[u]
      withStream == TakeStream(c)
      withSpeech == IF ~c.recognition
                    THEN InitSpeechRecognition(withStream, PcSocket(c, k))
                    ELSE withStream
      closedOld == IF Has(c.links, c.pcs[k].target)
                   THEN ClosePc(withSpeech, c.links[c.pcs[k].target])
                   ELSE withSpeech
  IN /\ Mounted(u)
     /\ k \in 1..Len(c.pcs)
     /\ c.pcs[k].stage = "mic"
     /\ client' = [client EXCEPT
                     ![u] = IF outcome = "granted"
                            THEN [closedOld EXCEPT
                                    !.pcs[k].open = TRUE,
                                    !.pcs[k].stage = "answering",
                                    !.pcs[k].track = "current"]
                            ELSE [c EXCEPT !.pcs[k].stage = "failed"]]
     /\ UNCHANGED <<hubVars, chatVars, inbox, afterLeave>>

\* handleOffer resumes after setRemoteDescription, createAnswer and
\* setLocalDescription: it emits the answer and then stores the connection;
\* the catch only logs
AnswerReady(u, k, outcome) ==
  LET c == client[u]
      data == [fromUserId |-> u, targetUserId |-> c.pcs[k].target,
               payload |-> "sdp"]
  IN /\ Mounted(u)
     /\ k \in 1..Len(c.pcs)
     /\ c.pcs[k].stage = "answering"
     /\ IF outcome = "throw"
        THEN /\ client' = [client EXCEPT ![u].pcs[k].stage = "failed"]
             /\ UNCHANGED <<hubVars, inbox, afterLeave>>
        ELSE IF PcSocket(c, k) \in connected
        THEN /\ Relay(PcSocket(c, k), "answer", data)
             /\ inbox' = Deliver(RelayEmits(PcSocket(c, k), "answer", data))
             /\ client' = [client EXCEPT
                             ![u].pcs[k].stage = "answered",
                             ![u].links = Put(@, c.pcs[k].target, k)]
             /\ afterLeave' = Sent(u, "answer")
        ELSE /\ client' = [client EXCEPT
                             ![u] = [ClosePc(c, k) EXCEPT
                                       !.pcs[k].stage = "failed"]]
             /\ UNCHANGED <<hubVars, inbox, afterLeave>>
     /\ UNCHANGED chatVars

\* pc.onicecandidate of an open connection that has a local description
IceCandidate(u, k) ==
  LET c == client[u]
      data == [fromUserId |-> u, targetUserId |-> c.pcs[k].target,
               payload |-> "sdp"]
  IN /\ Mounted(u)
     /\ k \in 1..Len(c.pcs)
     /\ c.pcs[k].open
     /\ c.pcs[k].stage \in {"offered", "answered", "stable", "connfailed"}
     /\ PcSocket(c, k) \in connected
     /\ Relay(PcSocket(c, k), "ice_candidate", data)
     /\ inbox' = Deliver(RelayEmits(PcSocket(c, k), "ice_candidate", data))
     /\ afterLeave' = Sent(u, "ice_candidate")
     /\ UNCHANGED <<chatVars, client>>

\* pc.onconnectionstatechange with connectionState "failed", which takes
\* both descriptions: arms the reconnect timer; the connection is neither
\* closed nor removed
ConnectionFailed(u, k) ==
  LET c == client[u]
  IN /\ Mounted(u)
     /\ k \in 1..Len(c.pcs)
     /\ c.pcs[k].open
     /\ c.pcs[k].stage \in {"answered", "stable"}
     /\ client' = [client EXCEPT ![u].pcs[k].stage = "connfailed",
                                 ![u].timers = @ \cup {c.pcs[k].target}]
     /\ UNCHANGED <<hubVars, chatVars, inbox, afterLeave>>

\* recog.onresult with an interim transcript, delivered by one of the
\* recognisers started: socket?.emit("subtitle") on the socket of its
\* closure, which sends nothing when that socket is null, and the promotion
\* timer is restarted with a callback of the same closure.  The recogniser
\* delivers an utterance as interim transcripts followed by one final
\* transcript; `utterance` and `promoted` record which utterance is being
\* delivered and the texts emitted as chat_message for it.
InterimResult(u, text) ==
  LET c == client[u]
      data == [roomCode |-> ClientRoom, userId |-> u, text |-> text]
  IN /\ Mounted(u)
     /\ c.recog = "running"
     /\ \E closure \in c.recogs :
          /\ client' = [client EXCEPT
                          ![u].pending = text, ![u].debounce = TRUE,
                          ![u].timerSocket = closure,
                          ![u].utterance = "open",
                          ![u].promoted = IF c.utterance = "closed" THEN <<>>
                                          ELSE @]
          /\ IF closure \in connected
             THEN /\ Subtitle(closure, data)
                  /\ afterLeave' = Sent(u, "subtitle")
             ELSE UNCHANGED <<hubVars, chatVars, afterLeave>>
     /\ UNCHANGED inbox

\* recog.onresult with a final transcript: if it is longer than 5
\* characters it is appended to the message list and sent as chat_message
\* on the socket of the closure; the pending subtitle is dropped
FinalResult(u, text) ==
  LET c == client[u]
      data == [roomCode |-> ClientRoom, userId |-> u, message |-> text]
      base == IF c.utterance = "closed" THEN <<>> ELSE c.promoted
      d == [c EXCEPT !.pending = "none", !.utterance = "closed",
                     !.promoted = base]
  IN /\ Mounted(u)
     /\ c.recog = "running"
     /\ \E closure \in c.recogs :
          IF TextLength[text] > 5
          THEN /\ Len(c.msgs) < MaxMessages
               /\ IF closure \in connected
                  THEN /\ ChatMessage(closure, data)
                       /\ client' = [client EXCEPT
                                       ![u] = [AddMessage(d, u, text) EXCEPT
                                                 !.promoted = Append(base, text)]]
                       /\ afterLeave' = Sent(u, "chat_message")
                  ELSE /\ client' = [client EXCEPT ![u] = AddMessage(d, u, text)]
                       /\ UNCHANGED <<hubVars, chatVars, afterLeave>>
          ELSE /\ client' = [client EXCEPT ![u] = d]
               /\ UNCHANGED <<hubVars, chatVars, afterLeave>>
     /\ UNCHANGED inbox

\* the promotion timer fires after 2 s without a new interim transcript: a
\* pending text longer than 5 characters is appended to the message list
\* and sent as chat_message on the socket of the closure
PromoteSubtitle(u) ==
  LET c == client[u]
      data == [roomCode |-> ClientRoom, userId |-> u, message |-> c.pending]
      d == AddMessage([c EXCEPT !.debounce = FALSE, !.pending = "none"],
                      u, c.pending)
  IN /\ Mounted(u)
     /\ c.debounce
     /\ IF c.pending # "none" /\ TextLength[c.pending] > 5
        THEN /\ Len(c.msgs) < MaxMessages
             /\ IF c.timerSocket \in connected
                THEN /\ ChatMessage(c.timerSocket, data)
                     /\ client' = [client EXCEPT
                                     ![u] = [d EXCEPT !.promoted =
                                                        Append(@, c.pending)]]
                     /\ afterLeave' = Sent(u, "chat_message")
                ELSE /\ client' = [client EXCEPT ![u] = d]
                     /\ UNCHANGED <<hubVars, chatVars, afterLeave>>
        ELSE /\ client' = [client EXCEPT ![u].debounce = FALSE]
             /\ UNCHANGED <<hubVars, chatVars, afterLeave>>
     /\ UNCHANGED inbox

\* recog.onend after recognition.stop(): arms the restart timer
RecogEnd(u) ==
  /\ Mounted(u)
  /\ client[u].recog = "stopped"
  /\ client' = [client EXCEPT ![u].recog = IF isAudioEnabled THEN "restarting"
                                           ELSE "none"]
  /\ UNCHANGED <<hubVars, chatVars, inbox, afterLeave>>

\* the restart timer of recog.onend: recog.start()
RecogRestart(u) ==
  /\ Mounted(u)
  /\ client[u].recog = "restarting"
  /\ client' = [client EXCEPT ![u].recog = "running"]
  /\ UNCHANGED <<hubVars, chatVars, inbox, afterLeave>>

\* leaveRoom, up to its first await: closes the stored connections, stops
\* recognition, emits leave_room with {roomCode, userId}
ClientLeave(u) ==
  LET c == CloseAllPeerConnections(client[u])
      d == IF c.recognition
           THEN [c EXCEPT !.recog = "stopped", !.recognition = FALSE] ELSE c
      arg == [type |-> "object", roomCode |-> ClientRoom, userId |-> u]
  IN /\ client[u].phase = "mounted"
     /\ IF SocketConnected(u)
        THEN /\ LeaveRoom(c.socket, arg)
             /\ inbox' = Deliver(LeaveEmits(c.socket, arg))
        ELSE UNCHANGED <<hubVars, inbox>>
     /\ client' = [client EXCEPT ![u] = [d EXCEPT !.phase = "leaving",
                                                  !.joined = FALSE]]
     /\ UNCHANGED <<chatVars, afterLeave>>

\* the component unmounts, after onLeave() or when the page goes away: the
\* cleanup of the socket effect disconnects the socket
Unmount(u) ==
  /\ Mounted(u)
  /\ Disconnect(client[u].socket)
  /\ inbox' = [Deliver(DisconnectEmits(client[u].socket)) EXCEPT ![u] = <<>>]
  /\ client' = [client EXCEPT
                  ![u].phase = IF client[u].phase = "leaving" THEN "left"
                               ELSE "gone"]
  /\ UNCHANGED <<chatVars, afterLeave>>

(* ------------------------------- chat ---------------------------------- *)
\* handleSendMessage: the typed message is appended to the message list and
\* sent as chat_message; nothing happens without a connected socket
SendMessage(u, content) ==
  LET c == client[u]
      data == [roomCode |-> ClientRoom, userId |-> u, message |-> content]
  IN /\ Mounted(u)
     /\ SocketConnected(u)
     /\ Len(c.msgs) < MaxMessages
     /\ ChatMessage(c.socket, data)
     /\ client' = [client EXCEPT ![u] = AddMessage(c, u, content)]
     /\ UNCHANGED <<inbox, afterLeave>>

\* the insert of request i settles, the hub's chat_message handler resumes
\* and what it emits reaches the sockets of the room
InsertDelivered(i, outcome) ==
  /\ InsertDone(i, outcome)
  /\ inbox' = Deliver(InsertEmits(i, outcome))
  /\ UNCHANGED <<client, afterLeave>>

(* ------------------------- audio switched off -------------------------- *)
\* the commit of the render in which isAudioEnabled has become false, for
\* the component whose record, after the step that called
\* setIsAudioEnabled(false), is c.  The socket effect has isAudioEnabled
\* among its dependencies: its cleanup disconnects the socket and it opens a
\* new one, which Reconnect connects.  The audio effect closes the stored
\* connections and stops the recogniser held in the recognition state.
SetAudioOff(u, c) ==
  LET closedAll == CloseAllPeerConnections(c)
      stopped == IF c.recognition
                 THEN [closedAll EXCEPT
                         !.recog = IF @ = "running" THEN "stopped" ELSE @,
                         !.recognition = FALSE]
                 ELSE closedAll
  IN /\ Disconnect(client[u].socket)
     /\ inbox' = [Deliver(DisconnectEmits(client[u].socket)) EXCEPT ![u] = <<>>]
     /\ client' = [client EXCEPT ![u] = [stopped EXCEPT !.audio = FALSE,
                                                       !.socket = "none",
                                                       !.stale = Len(c.pcs)]]
     /\ UNCHANGED <<chatVars, afterLeave>>

\* initializeAudioConnections resumes without a stream (getMicrophoneStream
\* caught the rejection of getUserMedia): setIsAudioEnabled(false)
MicDenied(u) ==
  /\ Mounted(u)
  /\ client[u].mic = "pending"
  /\ IF client[u].audio /\ SocketConnected(u)
     THEN SetAudioOff(u, [client[u] EXCEPT !.mic = "denied"])
     ELSE /\ client' = [client EXCEPT ![u].mic = "denied"]
          /\ UNCHANGED <<hubVars, chatVars, inbox, afterLeave>>

\* the user clicks the audio button while the audio is on
ToggleAudioOff(u) ==
  /\ client[u].phase = "mounted"
  /\ client[u].audio
  /\ SocketConnected(u)
  /\ SetAudioOff(u, client[u])

\* recog.onerror with 'not-allowed' or 'audio-capture': an alert and
\* setIsAudioEnabled(false); the recogniser has ended and its onend follows
RecogNotAllowed(u) ==
  /\ Mounted(u)
  /\ client[u].recog = "running"
  /\ IF client[u].audio /\ SocketConnected(u)
     THEN SetAudioOff(u, [client[u] EXCEPT !.recog = "stopped"])
     ELSE /\ client' = [client EXCEPT ![u].recog = "stopped"]
          /\ UNCHANGED <<hubVars, chatVars, inbox, afterLeave>>

\* the socket that the socket effect opened connects
Reconnect(u, s) ==
  /\ Mounted(u)
  /\ client[u].socket = "none"
  /\ Connection(s)
  /\ client' = [client EXCEPT ![u].socket = s]
  /\ UNCHANGED <<chatVars, inbox, afterLeave>>

\* its 'connect' handler found roomJoinedRef set and emitted join_room
Rejoin(u) ==
  LET data == [roomCode |-> ClientRoom, userId |-> u, displayName |-> "dn"]
  IN /\ Mounted(u)
     /\ client[u].joined
     /\ SocketConnected(u)
     /\ ~Has(socketRoomMap, client[u].socket)
     /\ JoinRoom(client[u].socket, data)
     /\ inbox' = Deliver(JoinEmits(client[u].socket, data))
     /\ UNCHANGED <<chatVars, client, afterLeave>>

(* ---------------------------- remote peers ---------------------------- *)
\* no ChatRoom component has mounted yet: SpecClient and SpecLeave follow one
\* component in full and take the other users as remote peers
Alone == \A v \in Users : client[v].phase \in {"unmounted", "remote", "remoteGone"}
Remote(v) == client[v].phase = "remote"
\* both users are in the presence set the hub broadcasts for the room
SeeEachOther(u, v) == {u, v} \subseteq Elems(PresenceArray(roomPresence, ClientRoom))

\* the ChatRoom of another user connects to the hub (socket ids are opaque:
\* the component under study is taken to connect first)
RemoteConnect(v, s) ==
  /\ client[v].phase = "unmounted"
  /\ \E u \in Users : client[u].phase \notin {"unmounted", "remote", "remoteGone"}
  /\ Connection(s)
  /\ client' = [client EXCEPT ![v].phase = "remote", ![v].socket = s]
  /\ UNCHANGED <<chatVars, inbox, afterLeave>>

\* its joinRoom emits join_room
RemoteJoin(v) ==
  LET data == [roomCode |-> ClientRoom, userId |-> v, displayName |-> "dn"]
  IN /\ Remote(v)
     /\ ~client[v].joined
     /\ JoinRoom(client[v].socket, data)
     /\ inbox' = Deliver(JoinEmits(client[v].socket, data))
     /\ client' = [client EXCEPT ![v].joined = TRUE]
     /\ UNCHANGED <<chatVars, afterLeave>>

\* its initiatePeerConnection emits an offer for a user it sees online
RemoteOffer(v, u) ==
  LET data == [fromUserId |-> v, targetUserId |-> u, payload |-> "sdp"]
  IN /\ Remote(v)
     /\ Mounted(u)
     /\ SeeEachOther(u, v)
     /\ Len(inbox[u]) < MaxInbox
     /\ \A i \in 1..Len(inbox[u]) :
          ~(inbox[u][i].event = "offer" /\ inbox[u][i].payload.fromUserId = v)
     /\ Relay(client[v].socket, "offer", data)
     /\ inbox' = Deliver(RelayEmits(client[v].socket, "offer", data))
     /\ UNCHANGED <<chatVars, client, afterLeave>>

\* its handleOffer emits the answer to an offer it received from u
RemoteAnswer(v, u) ==
  LET data == [fromUserId |-> v, targetUserId |-> u, payload |-> "sdp"]
  IN /\ Remote(v)
     /\ Mounted(u)
     /\ \E k \in 1..Len(client[u].pcs) :
          /\ client[u].pcs[k].target = v
          /\ client[u].pcs[k].stage = "offered"
     /\ \A i \in 1..Len(inbox[u]) :
          ~(inbox[u][i].event = "answer" /\ inbox[u][i].payload.fromUserId = v)
     /\ Relay(client[v].socket, "answer", data)
     /\ inbox' = Deliver(RelayEmits(client[v].socket, "answer", data))
     /\ UNCHANGED <<chatVars, client, afterLeave>>

\* pc.onicecandidate of a connection of v to u that has a local description:
\* v has sent u an offer or an answer
RemoteIce(v, u) ==
  LET data == [fromUserId |-> v, targetUserId |-> u, payload |-> "sdp"]
  IN /\ Remote(v)
     /\ Mounted(u)
     /\ \/ \E i \in 1..Len(inbox[u]) :
             /\ inbox[u][i].event \in {"offer", "answer"}
             /\ inbox[u][i].payload.fromUserId = v
        \/ \E k \in 1..Len(client[u].pcs) :
             /\ client[u].pcs[k].target = v
             /\ client[u].pcs[k].role = "passive"
                  \/ client[u].pcs[k].stage = "stable"
     /\ Len(inbox[u]) < MaxInbox
     /\ \A i \in 1..Len(inbox[u]) :
          ~(inbox[u][i].event = "ice_candidate"
            /\ inbox[u][i].payload.fromUserId = v)
     /\ Relay(client[v].socket, "ice_candidate", data)
     /\ inbox' = Deliver(RelayEmits(client[v].socket, "ice_candidate", data))
     /\ UNCHANGED <<chatVars, client, afterLeave>>

\* it sends a typed message
RemoteSend(v, content) ==
  LET data == [roomCode |-> ClientRoom, userId |-> v, message |-> content]
  IN /\ Remote(v)
     /\ client[v].joined
     /\ ChatMessage(client[v].socket, data)
     /\ UNCHANGED clientVars

\* its socket disconnects (the component unmounts or the page goes away)
RemoteDisconnect(v) ==
  /\ Remote(v)
  /\ Disconnect(client[v].socket)
  /\ inbox' = Deliver(DisconnectEmits(client[v].socket))
  /\ client' = [client EXCEPT ![v].phase = "remoteGone"]
  /\ UNCHANGED <<chatVars, afterLeave>>

NextClient ==
  \/ \E u \in Users, s \in Sessions : Alone /\ Mount(u, s)
  \/ \E u \in Users : MicGranted(u)
  \/ \E u \in Users : ClientJoin(u)
  \/ \E u \in Users : Receive(u)
  \/ \E u \in Users, target \in Users : InitiateTimer(u, target)
  \/ \E u \in Users, k \in 1..MaxPcs, outcome \in NegotiationOutcomes :
       OfferReady(u, k, outcome)
  \/ \E u \in Users, k \in 1..MaxPcs, outcome \in MicOutcomes :
       OfferMic(u, k, outcome)
  \/ \E u \in Users, k \in 1..MaxPcs, outcome \in NegotiationOutcomes :
       AnswerReady(u, k, outcome)
  \/ \E u \in Users, k \in 1..MaxPcs : IceCandidate(u, k)
  \/ \E u \in Users, k \in 1..MaxPcs : ConnectionFailed(u, k)
  \/ \E u \in Users : RecogEnd(u)
  \/ \E u \in Users : RecogRestart(u)
  \/ \E u \in Users : ClientLeave(u)
  \/ \E u \in Users : Unmount(u)
  \/ \E v \in Users, s \in Sessions : RemoteConnect(v, s)
  \/ \E v \in Users : RemoteJoin(v)
  \/ \E v \in Users, u \in Users : RemoteOffer(v, u)
  \/ \E v \in Users, u \in Users : RemoteAnswer(v, u)
  \/ \E v \in Users : RemoteDisconnect(v)

SpecClient == Init /\ [][NextClient]_vars

\* the component with its user speaking, in a room whose other users only
\* join
NextLeave ==
  \/ \E u \in Users, s \in Sessions : Alone /\ Mount(u, s)
  \/ \E u \in Users : MicGranted(u)
  \/ \E u \in Users : ClientJoin(u)
  \/ \E u \in Users : Receive(u)
  \/ \E u \in Users, target \in Users : InitiateTimer(u, target)
  \/ \E u \in Users, k \in 1..MaxPcs, outcome \in NegotiationOutcomes :
       OfferReady(u, k, outcome)
  \/ \E u \in Users, k \in 1..MaxPcs : IceCandidate(u, k)
  \/ \E u \in Users, text \in Transcripts : InterimResult(u, text)
  \/ \E u \in Users, text \in Transcripts : FinalResult(u, text)
  \/ \E u \in Users : PromoteSubtitle(u)
  \/ \E u \in Users : RecogEnd(u)
  \/ \E u \in Users : RecogRestart(u)
  \/ \E u \in Users : ClientLeave(u)
  \/ \E u \in Users : Unmount(u)
  \/ \E v \in Users, s \in Sessions : RemoteConnect(v, s)
  \/ \E v \in Users : RemoteJoin(v)

SpecLeave == Init /\ [][NextLeave]_vars

\* the component, its transcript engine and a remote peer whose offer makes
\* handleOffer acquire the microphone: the recogniser that handleOffer
\* starts is the one whose handlers hold the socket of the component
NextSpeech ==
  \/ \E u \in Users, s \in Sessions : Alone /\ Mount(u, s)
  \/ \E u \in Users : MicGranted(u)
  \/ \E u \in Users : ClientJoin(u)
  \/ \E u \in Users : Receive(u)
  \/ \E u \in Users, k \in 1..MaxPcs : OfferMic(u, k, "granted")
  \/ \E u \in Users, k \in 1..MaxPcs : AnswerReady(u, k, "ok")
  \/ \E u \in Users, text \in Transcripts : InterimResult(u, text)
  \/ \E u \in Users, text \in Transcripts : FinalResult(u, text)
  \/ \E u \in Users : PromoteSubtitle(u)
  \/ \E v \in Users, s \in Sessions : RemoteConnect(v, s)
  \/ \E v \in Users : RemoteJoin(v)
  \/ \E v \in Users, u \in Users : RemoteOffer(v, u)

SpecSpeech == Init /\ [][NextSpeech]_vars

\* the component that chats, by typing and by speaking, with a remote peer
NextMessages ==
  \/ \E u \in Users, s \in Sessions : Alone /\ Mount(u, s)
  \/ \E v \in Users, s \in Sessions : RemoteConnect(v, s)
  \/ \E v \in Users : RemoteJoin(v)
  \/ \E v \in Users, content \in Contents : RemoteSend(v, content)
  \/ \E u \in Users : MicGranted(u)
  \/ \E u \in Users : ClientJoin(u)
  \/ \E u \in Users : Receive(u)
  \/ \E u \in Users, content \in Contents : SendMessage(u, content)
  \/ \E i \in 1..MaxRequests, outcome \in InsertOutcomes :
       InsertDelivered(i, outcome)
  \/ \E u \in Users, text \in Transcripts : InterimResult(u, text)
  \/ \E u \in Users, text \in Transcripts : FinalResult(u, text)
  \/ \E u \in Users : PromoteSubtitle(u)

SpecMessages == Init /\ [][NextMessages]_vars

\* the component whose audio is switched off, by a refused microphone, by
\* the audio button or by the recogniser, and its transcript engine
NextAudio ==
  \/ \E u \in Users, s \in Sessions : Alone /\ Mount(u, s)
  \/ \E u \in Users : MicGranted(u)
  \/ \E u \in Users : MicDenied(u)
  \/ \E u \in Users : ToggleAudioOff(u)
  \/ \E u \in Users : RecogNotAllowed(u)
  \/ \E u \in Users, s \in Sessions : Reconnect(u, s)
  \/ \E u \in Users : Rejoin(u)
  \/ \E u \in Users : ClientJoin(u)
  \/ \E u \in Users : Receive(u)
  \/ \E u \in Users, k \in 1..MaxPcs, outcome \in MicOutcomes :
       OfferMic(u, k, outcome)
  \/ \E u \in Users, k \in 1..MaxPcs : AnswerReady(u, k, "ok")
  \/ \E u \in Users, text \in Transcripts : InterimResult(u, text)
  \/ \E u \in Users, text \in Transcripts : FinalResult(u, text)
  \/ \E u \in Users : PromoteSubtitle(u)
  \/ \E u \in Users : RecogEnd(u)
  \/ \E u \in Users : RecogRestart(u)
  \/ \E v \in Users, s \in Sessions : RemoteConnect(v, s)
  \/ \E v \in Users : RemoteJoin(v)
  \/ \E v \in Users, u \in Users : RemoteOffer(v, u)

SpecAudio == Init /\ [][NextAudio]_vars

\* the component and the remote peers that negotiate with it and send it
\* their ICE candidates
NextIce ==
  \/ \E u \in Users, s \in Sessions : Alone /\ Mount(u, s)
  \/ \E u \in Users : MicGranted(u)
  \/ \E u \in Users : ClientJoin(u)
  \/ \E u \in Users : Receive(u)
  \/ \E u \in Users, target \in Users : InitiateTimer(u, target)
  \/ \E u \in Users, k \in 1..MaxPcs : OfferReady(u, k, "ok")
  \/ \E u \in Users, k \in 1..MaxPcs : AnswerReady(u, k, "ok")
  \/ \E v \in Users, s \in Sessions : RemoteConnect(v, s)
  \/ \E v \in Users : RemoteJoin(v)
  \/ \E v \in Users, u \in Users : RemoteOffer(v, u)
  \/ \E v \in Users, u \in Users : RemoteAnswer(v, u)
  \/ \E v \in Users, u \in Users : RemoteIce(v, u)

SpecIce == Init /\ [][NextIce]_vars

(* ======================= two ChatRoom components ======================= *)
(* Both users run the component of part_007 in the same room and stay: no   *)
(* one leaves or unmounts, the microphone is granted, no WebRTC call        *)
(* rejects except on a closed connection, and the hub relays every          *)
(* signaling event.  Run under SpecPair.                                    *)
NextPair ==
  \/ \E u \in Users, s \in Sessions : Mount(u, s)
  \/ \E u \in Users : MicGranted(u)
  \/ \E u \in Users : ClientJoin(u)
  \/ \E u \in Users : Receive(u)
  \/ \E u \in Users, target \in Users : InitiateTimer(u, target)
  \/ \E u \in Users, k \in 1..MaxPcs : OfferReady(u, k, "ok")
  \/ \E u \in Users, k \in 1..MaxPcs : OfferMic(u, k, "granted")
  \/ \E u \in Users, k \in 1..MaxPcs : AnswerReady(u, k, "ok")

SpecPair == Init /\ [][NextPair]_vars

(* ============ the transcript engine of components/ChatRoom.tsx ========= *)
(* src/src/components/ChatRoom.tsx is the component App.tsx imports.  Its   *)
(* speech effect has no promotion timer and no pending buffer: an interim   *)
(* transcript only sets the speaker's subtitle, a final transcript is       *)
(* emitted as chat_message.  The microphone preference is saved as enabled. *)
(* Run under SpecTsx.                                                       *)

\* the component mounts: the socket effect opens a socket, the local audio
\* effect calls getUserMedia, and the speech effect, re-run by setSocket,
\* starts a recogniser whose closure holds the socket
TsxMount(u, s) ==
  /\ client[u].phase = "unmounted"
  /\ Connection(s)
  /\ client' = [client EXCEPT ![u].phase = "tsx", ![u].socket = s,
                              ![u].audio = isAudioEnabled,
                              ![u].mic = IF isAudioEnabled THEN "pending"
                                         ELSE "idle",
                              ![u].recog = IF isAudioEnabled THEN "running"
                                           ELSE "none",
                              ![u].recognition = isAudioEnabled]
  /\ UNCHANGED <<chatVars, inbox, afterLeave>>

\* getUserMedia resolves: setLocalStream(stream)
TsxMicGranted(u) ==
  /\ client[u].phase = "tsx"
  /\ client[u].mic = "pending"
  /\ client' = [client EXCEPT ![u] = TakeStream([@ EXCEPT !.mic = "idle"])]
  /\ UNCHANGED <<hubVars, chatVars, inbox, afterLeave>>

\* getUserMedia rejects: the catch logs the error and does nothing else
TsxMicDenied(u) ==
  /\ client[u].phase = "tsx"
  /\ client[u].mic = "pending"
  /\ client' = [client EXCEPT ![u].mic = "denied"]
  /\ UNCHANGED <<hubVars, chatVars, inbox, afterLeave>>

\* recog.onresult with an interim transcript: setSubtitles
TsxInterimResult(u, text) ==
  LET c == client[u]
  IN /\ c.phase = "tsx"
     /\ c.recog = "running"
     /\ client' = [client EXCEPT
                     ![u].pending = text,
                     ![u].utterance = "open",
                     ![u].promoted = IF c.utterance = "closed" THEN <<>> ELSE @]
     /\ UNCHANGED <<hubVars, chatVars, inbox, afterLeave>>

\* recog.onresult with a final transcript: emits chat_message whatever the
\* length of the text, and deletes the speaker's subtitle
TsxFinalResult(u, text) ==
  LET c == client[u]
      data == [roomCode |-> ClientRoom, userId |-> u, message |-> text]
  IN /\ c.phase = "tsx"
     /\ c.recog = "running"
     /\ ChatMessage(c.socket, data)
     /\ client' = [client EXCEPT
                     ![u].pending = "none",
                     ![u].utterance = "closed",
                     ![u].promoted =
                        Append(IF c.utterance = "closed" THEN <<>> ELSE @, text)]
     /\ UNCHANGED <<inbox, afterLeave>>

\* the component unmounts: the effects' cleanups stop the recogniser and
\* disconnect the socket
TsxUnmount(u) ==
  /\ client[u].phase = "tsx"
  /\ Disconnect(client[u].socket)
  /\ client' = [client EXCEPT ![u].phase = "gone", ![u].recog = "none"]
  /\ UNCHANGED <<chatVars, inbox, afterLeave>>

NextTsx ==
  \/ \E u \in Users, s \in Sessions : TsxMount(u, s)
  \/ \E u \in Users : TsxMicGranted(u)
  \/ \E u \in Users : TsxMicDenied(u)
  \/ \E u \in Users, text \in Transcripts : TsxInterimResult(u, text)
  \/ \E u \in Users, text \in Transcripts : TsxFinalResult(u, text)
  \/ \E u \in Users : TsxUnmount(u)
  \/ \E i \in 1..MaxRequests, outcome \in InsertOutcomes :
       InsertDone(i, outcome) /\ UNCHANGED clientVars

SpecTsx == Init /\ [][NextTsx]_vars

(* ===================== the registry, as observed ======================= *)
\* subtitles[userId] of the speaker's own component: set and deleted
\* together with pendingSubtitles.current[userId]
OwnSubtitle(u) == client[u].pending
\* the user ids in the presence set of room r
PresenceOf(r) == Elems(PresenceArray(roomPresence, r))
\* the open sockets that hold a registry entry
Registered == {s \in connected : Has(socketRoomMap, s)}
\* the user ids some open socket is registered with in room r
RegisteredUsers(r) ==
  {socketRoomMap[s].userId : s \in {t \in Registered : socketRoomMap[t].roomCode = r}}
\* the open sockets registered in room r
RegisteredIn(r) == {s \in Registered : socketRoomMap[s].roomCode = r}
IsSignal == lastEvent.kind \in SignalKinds

(* ------------------------------- C1 ------------------------------------ *)
\* C1: after any sequence of join_room, leave_room and disconnect events, the
\* presence set of every room equals exactly the set of user ids that some
\* connected session is registered with in that room.
C1_PresenceEqualsRegistered ==
  \A r \in Rooms : PresenceOf(r) = RegisteredUsers(r)

(* ------------------------------- C2 ------------------------------------ *)
\* C2: a join_room of a user id that is already in the room's presence set
\* leaves that set as it was (same size, the user id exactly once), and no
\* presence set and no presence_update payload ever holds a user id twice.
C2_RejoinDoesNotDuplicate ==
  /\ \A r \in DOMAIN roomPresence : NoDuplicates(roomPresence[r])
  /\ \A i \in 1..Len(emitted) :
       emitted[i].event = "presence_update" => NoDuplicates(emitted[i].payload)
  /\ (/\ lastEvent.kind = "join_room"
      /\ lastEvent.data.userId
           \in Elems(PresenceArray(pre.roomPresence, lastEvent.data.roomCode)))
     => /\ roomPresence[lastEvent.data.roomCode]
             = pre.roomPresence[lastEvent.data.roomCode]
        /\ emitted[1].payload = pre.roomPresence[lastEvent.data.roomCode]

\* a new session joined a room as a user another session had registered there
C2_Witness ==
  /\ lastEvent.kind = "join_room"
  /\ ~Has(pre.socketRoomMap, lastEvent.socket)
  /\ lastEvent.data.userId
       \in Elems(PresenceArray(pre.roomPresence, lastEvent.data.roomCode))
  /\ \E t \in connected \ {lastEvent.socket} :
       /\ Has(pre.socketRoomMap, t)
       /\ pre.socketRoomMap[t].roomCode = lastEvent.data.roomCode
       /\ pre.socketRoomMap[t].userId = lastEvent.data.userId
  /\ Len(roomPresence[lastEvent.data.roomCode]) = 2

(* ------------------------------- C3 ------------------------------------ *)
\* C3: when a session registers (r, u) while an older session is registered
\* for the same (r, u), the older session has no registry entry afterwards;
\* and an unregistering session that is not the one userSockets resolves its
\* user to neither removes that user from the room nor deletes userSockets[u].
C3_StaleEntryReleased ==
  /\ lastEvent.kind = "join_room"
       => \A t \in Sessions \ {lastEvent.socket} :
            ~(/\ Has(socketRoomMap, t)
              /\ socketRoomMap[t].roomCode = lastEvent.data.roomCode
              /\ socketRoomMap[t].userId = lastEvent.data.userId)
  /\ (/\ lastEvent.kind \in {"disconnect", "leave_room"}
      /\ Has(pre.socketRoomMap, lastEvent.socket)
      /\ Has(pre.userSockets, pre.socketRoomMap[lastEvent.socket].userId)
      /\ pre.userSockets[pre.socketRoomMap[lastEvent.socket].userId]
           # lastEvent.socket)
     => /\ userSockets = pre.userSockets
        /\ roomPresence = pre.roomPresence

(* ------------------------------- C4 ------------------------------------ *)
\* C4: userSockets[u] is defined exactly when some connected session is
\* registered for user u, and then it is the id of a connected session that
\* is registered for u.
C4_ResolveConsistent ==
  \A u \in Users :
    /\ Has(userSockets, u) <=> (\E s \in Registered : socketRoomMap[s].userId = u)
    /\ Has(userSockets, u)
         => /\ userSockets[u] \in Registered
            /\ socketRoomMap[userSockets[u]].userId = u

(* ------------------------------- C5 ------------------------------------ *)
\* C5: a leave_room or disconnect from a session without a registry entry
\* changes none of socketRoomMap, userSockets, roomPresence and emits nothing.
C5_UnregisterWithoutEntryIsNoOp ==
  (/\ lastEvent.kind \in {"leave_room", "disconnect"}
   /\ ~Has(pre.socketRoomMap, lastEvent.socket))
  => /\ Registry = pre
     /\ emitted = <<>>

\* a session without an entry sent leave_room for a room others are present in
C5_Witness ==
  /\ lastEvent.kind = "leave_room"
  /\ lastEvent.arg.type = "string"
  /\ ~Has(pre.socketRoomMap, lastEvent.socket)
  /\ PresenceOf(lastEvent.arg.roomCode) # {}
  /\ RegisteredIn(lastEvent.arg.roomCode) # {}

(* ------------------------------- C6 ------------------------------------ *)
\* C6: a leave_room carrying {roomCode, userId}, sent by a session registered
\* in that room as that user, removes the user from the room's presence set,
\* deletes the session's registry entry and emits a presence_update without
\* that user.
C6_LeaveRoomObjectUnregisters ==
  (/\ lastEvent.kind = "leave_room"
   /\ lastEvent.arg.type = "object"
   /\ Has(pre.socketRoomMap, lastEvent.socket)
   /\ pre.socketRoomMap[lastEvent.socket].roomCode = lastEvent.arg.roomCode
   /\ pre.socketRoomMap[lastEvent.socket].userId = lastEvent.arg.userId)
  => /\ lastEvent.arg.userId \notin PresenceOf(lastEvent.arg.roomCode)
     /\ ~Has(socketRoomMap, lastEvent.socket)
     /\ Len(emitted) = 1
     /\ emitted[1].event = "presence_update"
     /\ lastEvent.arg.userId \notin Elems(emitted[1].payload)

(* ------------------------------- C7 ------------------------------------ *)
\* C7: when a registered session disconnects, its user is no longer in the
\* presence set of the room it was registered in, and one presence_update
\* carrying that presence set (which lacks the user) goes to every session
\* still registered in that room.
C7_DisconnectUnregisters ==
  (/\ lastEvent.kind = "disconnect"
   /\ Has(pre.socketRoomMap, lastEvent.socket))
  => LET r == pre.socketRoomMap[lastEvent.socket].roomCode
         u == pre.socketRoomMap[lastEvent.socket].userId
     IN /\ u \notin PresenceOf(r)
        /\ Len(emitted) = 1
        /\ emitted[1].event = "presence_update"
        /\ emitted[1].room = r
        /\ emitted[1].payload = roomPresence[r]
        /\ emitted[1].payload = SetDelete(pre.roomPresence[r], u)
        /\ RegisteredIn(r) \subseteq emitted[1].recipients
        /\ lastEvent.socket \notin emitted[1].recipients

\* a registered session disconnected while another user stayed in its room
C7_Witness ==
  /\ lastEvent.kind = "disconnect"
  /\ Has(pre.socketRoomMap, lastEvent.socket)
  /\ \E t \in RegisteredIn(pre.socketRoomMap[lastEvent.socket].roomCode) :
       /\ socketRoomMap[t].userId # pre.socketRoomMap[lastEvent.socket].userId
       /\ t \in emitted[1].recipients
       /\ emitted[1].payload = <<socketRoomMap[t].userId>>

(* ------------------------------- C8 ------------------------------------ *)
\* C8: an offer, answer or ice_candidate whose targetUserId resolves makes
\* the hub emit exactly one event, of the same kind, addressed to the
\* resolved session and received by no other session, with the sender's
\* fromUserId and payload as sent.
C8_RelayDeliversVerbatim ==
  (IsSignal /\ Has(pre.userSockets, lastEvent.data.targetUserId))
  => LET target == pre.userSockets[lastEvent.data.targetUserId]
     IN /\ Len(emitted) = 1
        /\ emitted[1].event = lastEvent.kind
        /\ emitted[1].room = target
        /\ emitted[1].recipients \subseteq {target}
        /\ target \in connected => emitted[1].recipients = {target}
        /\ emitted[1].payload = [fromUserId |-> lastEvent.data.fromUserId,
                                 payload |-> lastEvent.data.payload]

\* a session signalled a user who resolves to another, connected session
C8_Witness ==
  /\ IsSignal
  /\ Has(pre.userSockets, lastEvent.data.targetUserId)
  /\ pre.userSockets[lastEvent.data.targetUserId] \in connected \ {lastEvent.socket}
  /\ Has(socketRoomMap, lastEvent.socket)
  /\ socketRoomMap[lastEvent.socket].userId = lastEvent.data.fromUserId
  /\ lastEvent.data.fromUserId # lastEvent.data.targetUserId
  /\ emitted[1].recipients = {pre.userSockets[lastEvent.data.targetUserId]}

(* ------------------------------- C9 ------------------------------------ *)
\* C9: an offer, answer or ice_candidate whose targetUserId does not resolve
\* is dropped: no event is emitted to any session, the sender included.
C9_UnresolvedTargetIsDropped ==
  (IsSignal /\ ~Has(pre.userSockets, lastEvent.data.targetUserId))
  => emitted = <<>>

\* a registered session signalled a user id that userSockets does not hold
C9_Witness ==
  /\ IsSignal
  /\ ~Has(pre.userSockets, lastEvent.data.targetUserId)
  /\ Has(socketRoomMap, lastEvent.socket)
  /\ socketRoomMap[lastEvent.socket].userId = lastEvent.data.fromUserId
  /\ emitted = <<>>

(* ------------------------------- C10 ----------------------------------- *)
\* C10: handling an offer, answer or ice_candidate leaves socketRoomMap,
\* userSockets and every roomPresence set as they were, whether or not the
\* target resolves.
C10_RelayLeavesRegistryUnchanged ==
  IsSignal => /\ socketRoomMap = pre.socketRoomMap
              /\ userSockets = pre.userSockets
              /\ roomPresence = pre.roomPresence

\* a session that never joined signalled, claiming a user id that is not
\* in userSockets, while the registry was not empty
C10_Witness ==
  /\ IsSignal
  /\ ~Has(socketRoomMap, lastEvent.socket)
  /\ ~Has(userSockets, lastEvent.data.fromUserId)
  /\ DOMAIN userSockets # {}
  /\ DOMAIN roomPresence # {}

(* ------------------------------- C11 ----------------------------------- *)
\* C11: every room-scoped broadcast (presence_update, chat_message) for room
\* r is received by exactly the sessions whose registry entry names r.
C11_BroadcastReachesExactlyRegistered ==
  \A i \in 1..Len(emitted) :
    emitted[i].event \in {"presence_update", "chat_message"}
      => emitted[i].recipients = RegisteredIn(emitted[i].room)

(* ------------------------------- C12 ----------------------------------- *)
\* C12: on join_room the presence_update goes to every session in the room,
\* the joiner included, and the participant_joined goes to the same sessions
\* except the joiner.
C12_ParticipantJoinedExcludesJoiner ==
  lastEvent.kind = "join_room"
  => /\ Len(emitted) = 2
     /\ emitted[1].event = "presence_update"
     /\ emitted[2].event = "participant_joined"
     /\ lastEvent.socket \in emitted[1].recipients
     /\ lastEvent.socket \notin emitted[2].recipients
     /\ emitted[1].recipients = InRoom(lastEvent.data.roomCode)
     /\ emitted[2].recipients = InRoom(lastEvent.data.roomCode) \ {lastEvent.socket}
     /\ RegisteredIn(lastEvent.data.roomCode) \subseteq emitted[1].recipients

\* a session joined a room in which another session was registered
C12_Witness ==
  /\ lastEvent.kind = "join_room"
  /\ \E t \in RegisteredIn(lastEvent.data.roomCode) \ {lastEvent.socket} :
       /\ t \in emitted[2].recipients
       /\ emitted[2].payload.participant.id = lastEvent.data.userId
  /\ lastEvent.socket \in emitted[1].recipients

(* ------------------------------- C13 ----------------------------------- *)
\* C13: when one session submits two chat messages to the same room, the
\* broadcast of the first is emitted before the broadcast of the second,
\* whatever the order in which the two inserts settle.
C13_SameSessionOrderKept ==
  \A a, b \in 1..Len(chatOrder) :
    (/\ a < b
     /\ requests[chatOrder[a].request].socket
          = requests[chatOrder[b].request].socket
     /\ requests[chatOrder[a].request].data.roomCode
          = requests[chatOrder[b].request].data.roomCode
     /\ chatOrder[a].recipients \cap chatOrder[b].recipients # {})
    => chatOrder[a].request < chatOrder[b].request

(* ------------------------------- C14 ----------------------------------- *)
\* C14: a chat_message is emitted only by the step in which its insert
\* settles with a stored row, once per request, to every session in the
\* room (the sender too, while it is in the room), carrying the user id,
\* content and timestamp of that row; an insert that fails or returns no row
\* emits nothing.
C14_BroadcastAfterAppend ==
  /\ \A j, k \in 1..Len(chatOrder) :
       chatOrder[j].request = chatOrder[k].request => j = k
  /\ \A k \in 1..Len(chatOrder) : requests[chatOrder[k].request].state = "ok"
  /\ lastEvent.kind = "chat_message" => emitted = <<>>
  /\ (lastEvent.kind = "insert_done" /\ lastEvent.outcome # "ok")
       => emitted = <<>>
  /\ (lastEvent.kind = "insert_done" /\ lastEvent.outcome = "ok")
       => LET req == requests[lastEvent.request]
              row == messages[Len(messages)]
          IN /\ Len(emitted) = 1
             /\ emitted[1].event = "chat_message"
             /\ emitted[1].room = req.data.roomCode
             /\ emitted[1].recipients = InRoom(req.data.roomCode)
             /\ emitted[1].payload = [userId |-> row.user_id,
                                      message |-> row.content,
                                      timestamp |-> row.created_at]
             /\ row.room_code = req.data.roomCode
             /\ row.user_id = req.data.userId
             /\ row.content = req.data.message
             /\ chatOrder[Len(chatOrder)].request = lastEvent.request

\* the second row of the table was broadcast to its sender and another
\* session of the room
C14_Witness ==
  /\ lastEvent.kind = "insert_done"
  /\ lastEvent.outcome = "ok"
  /\ Len(messages) = 2
  /\ emitted[1].payload.timestamp = 2
  /\ requests[lastEvent.request].socket \in emitted[1].recipients
  /\ Cardinality(emitted[1].recipients) = 2

(* ------------------------------- C15 ----------------------------------- *)
\* C15: the chat_history reply of a fetch_messages request goes to the
\* requesting session and to no other session, and carries the rows of the
\* requested room.
C15_ChatHistoryIsUnicast ==
  /\ \A i \in 1..Len(emitted) :
       emitted[i].event = "chat_history" => lastEvent.kind = "select_done"
  /\ (lastEvent.kind = "select_done" /\ lastEvent.outcome = "ok")
       => LET req == requests[lastEvent.request]
          IN /\ Len(emitted) = 1
             /\ emitted[1].event = "chat_history"
             /\ emitted[1].recipients \subseteq {req.socket}
             /\ req.socket \in connected => emitted[1].recipients = {req.socket}
             /\ emitted[1].payload = RowsOf(req.data.roomCode)
  /\ (lastEvent.kind = "select_done" /\ lastEvent.outcome # "ok")
       => emitted = <<>>

\* a session fetched the history of a room another session is in as well,
\* and the history holds a row
C15_Witness ==
  /\ lastEvent.kind = "select_done"
  /\ lastEvent.outcome = "ok"
  /\ emitted[1].recipients = {requests[lastEvent.request].socket}
  /\ Len(emitted[1].payload) = 1
  /\ Cardinality(InRoom(requests[lastEvent.request].data.roomCode)) = 2

(* ===================== the component, as observed ====================== *)
\* user ids compare as strings; UserPool lists them in that order
Smaller(u, v) ==
  \E i, j \in 1..Len(UserPool) : i < j /\ UserPool[i] = u /\ UserPool[j] = v
\* the connections of u for which it has emitted an offer to v
OffersSent(u, v) ==
  {k \in 1..Len(client[u].pcs) :
     /\ client[u].pcs[k].target = v
     /\ client[u].pcs[k].role = "initiator"
     /\ client[u].pcs[k].stage \in {"offered", "stable", "connfailed"}}
\* the connections of u that are open
OpenPcs(u) == {k \in 1..Len(client[u].pcs) : client[u].pcs[k].open}
\* connection k of u is the one peerConnectionsRef holds for its target
Stored(u, k) ==
  /\ Has(client[u].links, client[u].pcs[k].target)
  /\ client[u].links[client[u].pcs[k].target] = k

(* ------------------------------- C16 ----------------------------------- *)
\* C16: a subtitle event sent by a session registered in a room is forwarded
\* to the other sessions of that room, and stores no row in `messages`.
C16_SubtitleForwarded ==
  (/\ lastEvent.kind = "subtitle"
   /\ Has(socketRoomMap, lastEvent.socket)
   /\ socketRoomMap[lastEvent.socket].roomCode = lastEvent.data.roomCode)
  => /\ messages = <<>>
     /\ \A t \in RegisteredIn(lastEvent.data.roomCode) \ {lastEvent.socket} :
          \E i \in 1..Len(emitted) :
            /\ emitted[i].event = "subtitle"
            /\ t \in emitted[i].recipients

(* ------------------------------- C17 ----------------------------------- *)
\* C17: for two users present in a room with audio enabled, the client of
\* the lexicographically larger user id never originates an offer for the
\* pair, and the client of the smaller one originates at most one.
C17_OneOfferBySmallerId ==
  \A u, v \in Users :
    u # v => /\ Smaller(v, u) => OffersSent(u, v) = {}
             /\ Cardinality(OffersSent(u, v)) <= 1

(* ------------------------------- C18 ----------------------------------- *)
\* C18: a client has at most one open peer connection per remote user, and
\* every open connection whose handler is not still negotiating is the one
\* stored in the link map under that user: a connection that was replaced or
\* whose negotiation failed is closed.
C18_OpenConnectionsAreStored ==
  \A u \in Users :
    /\ \A j, k \in OpenPcs(u) :
         client[u].pcs[j].target = client[u].pcs[k].target => j = k
    /\ \A k \in OpenPcs(u) :
         client[u].pcs[k].stage # "answering" => Stored(u, k)

(* ------------------------------- C19 ----------------------------------- *)
\* C19: once a client has handled a presence_update, it holds no link and no
\* open connection to a user that is not in the presence list it knows,
\* whatever the role and the negotiation state of the connection.
C19_LinkClosedWhenPeerLeaves ==
  \A u \in Users :
    (Mounted(u) /\ client[u].handled = "presence_update")
    => /\ DOMAIN client[u].links \subseteq Elems(client[u].online)
       /\ \A k \in OpenPcs(u) :
            client[u].pcs[k].target \in Elems(client[u].online)

(* ------------------------------- C20 ----------------------------------- *)
\* C20: once leaveRoom has begun the client emits no offer, answer,
\* ice_candidate, subtitle or chat_message, and when the leave completes no
\* connection is open and recognition neither runs nor is about to restart.
C20_NothingEmittedAfterLeave ==
  \A u \in Users :
    /\ afterLeave[u] \cap LeaveEvents = {}
    /\ client[u].phase = "left"
         => /\ OpenPcs(u) = {}
            /\ client[u].recog \notin {"running", "restarting"}

\* nothing of the component of u is pending: no event to handle, no timer,
\* no microphone request, no handler waiting on an await
AtRest(u) ==
  /\ inbox[u] = <<>>
  /\ client[u].timers = {}
  /\ client[u].mic = "idle"
  /\ \A k \in 1..Len(client[u].pcs) :
        client[u].pcs[k].stage \notin {"offering", "mic", "answering"}
\* u holds one open connection to v, the stored one, with both descriptions
\* applied: the initiator has its answer, the passive side sent its answer
Negotiated(u, v) ==
  /\ Has(client[u].links, v)
  /\ {k \in OpenPcs(u) : client[u].pcs[k].target = v} = {client[u].links[v]}
  /\ LET pc == client[u].pcs[client[u].links[v]]
     IN \/ pc.role = "initiator" /\ pc.stage = "stable"
        \/ pc.role = "passive" /\ pc.stage = "answered"

(* ------------------------------- C21 ----------------------------------- *)
\* C21: a client holds the microphone at most once at any time: at most one
\* stream returned by getMicrophoneStream has tracks that were not stopped.
C21_MicrophoneHeldOnce ==
  \A u \in Users : client[u].held <= 1

(* ------------------------------- C22 ----------------------------------- *)
\* C22: an utterance is promoted at most once: the texts emitted as
\* chat_message for one utterance, by the promotion timer and by the final
\* result, never contain the same buffered text twice.
C22_PromotedAtMostOnce ==
  \A u \in Users : NoDuplicates(client[u].promoted)

(* ------------------------------- C23 ----------------------------------- *)
\* C23: the transcript engine never emits a text of 5 characters or fewer
\* (the threshold of part_007) as chat_message, from the promotion timer or
\* from a final result.
C23_ShortTextNeverEmitted ==
  \A u \in Users : \A i \in 1..Len(client[u].promoted) :
     TextLength[client[u].promoted[i]] > 5

(* ------------------------------- C24 ----------------------------------- *)
\* C24: the step that handles a final transcript longer than 5 characters
\* sends chat_message with that text to the hub on the socket of the
\* component, whether or not the promotion timer is running, and leaves the
\* speaker without subtitle and without pending text.
C24_FinalResultPromotesAtOnce ==
  [][\A u \in Users, text \in Transcripts :
       (FinalResult(u, text) /\ TextLength[text] > 5) =>
          /\ Len(requests') = Len(requests) + 1
          /\ requests'[Len(requests')].op = "insert"
          /\ requests'[Len(requests')].socket = client[u].socket
          /\ requests'[Len(requests')].data.message = text
          /\ requests'[Len(requests')].data.userId = u
          /\ client'[u].pending = "none"
          /\ OwnSubtitle(u)' = "none"]_vars

(* ------------------------------- C25 ----------------------------------- *)
\* C25: once the promotion timer has elapsed the engine is idle, also when
\* the buffered text was 5 characters or fewer: while no timer is armed the
\* speaker has no pending text and no subtitle of its own.
C25_ShortBufferDiscardedOnTimeout ==
  \A u \in Users :
     ~client[u].debounce =>
        (client[u].pending = "none" /\ OwnSubtitle(u) = "none")

(* ------------------------------- C26 ----------------------------------- *)
\* C26: an event of a session registered in room R1 (a join_room for R1, a
\* leave_room, a disconnect, a signaling event) leaves every other room R2
\* alone: the presence set of R2 is unchanged, nothing is delivered to a
\* session registered in R2, and a user who was resolvable and has an open
\* session registered in R2 is still resolvable.
C26_RoomsAreIsolated ==
  LET s == lastEvent.socket
      R1 == pre.socketRoomMap[s].roomCode
      ofR1 == \/ lastEvent.kind \in SignalKinds \cup {"leave_room", "disconnect"}
              \/ lastEvent.kind = "join_room" /\ lastEvent.data.roomCode = R1
  IN (/\ lastEvent.kind \in SignalKinds \cup {"join_room", "leave_room",
                                               "disconnect"}
      /\ Has(pre.socketRoomMap, s)
      /\ ofR1) =>
       \A R2 \in Rooms \ {R1} :
          /\ PresenceArray(roomPresence, R2) = PresenceArray(pre.roomPresence, R2)
          /\ \A i \in 1..Len(emitted) : \A t \in emitted[i].recipients :
                ~(Has(pre.socketRoomMap, t) /\ pre.socketRoomMap[t].roomCode = R2)
          /\ \A t \in RegisteredIn(R2) :
                Has(pre.userSockets, socketRoomMap[t].userId)
                   => Has(userSockets, socketRoomMap[t].userId)

(* ------------------------------- C27 ----------------------------------- *)
\* C27: the step in which a client that has a local stream handles
\* presence_update leaves it with a link for exactly the users of the
\* presence set other than itself.
C27_LinksEqualPresenceMinusSelf ==
  [][\A u \in Users :
       (/\ Receive(u)
        /\ Head(inbox[u]).event = "presence_update"
        /\ client'[u].localStream) =>
          {t \in Users : Has(client'[u].links, t)}
             = Elems(Head(inbox[u]).payload) \ {u}]_vars

(* ------------------------------- C28 ----------------------------------- *)
\* C28: two users who stay in the same room with audio enabled end up with
\* one fully negotiated link each: when both components hold a stream, are
\* in each other's presence and have nothing left pending, each holds its
\* negotiated link to the other.
C28_PairEndsNegotiated ==
  \A u, v \in Users :
     (/\ u # v
      /\ client[u].phase = "mounted" /\ client[v].phase = "mounted"
      /\ SeeEachOther(u, v)
      /\ client[u].localStream /\ client[v].localStream
      /\ AtRest(u) /\ AtRest(v))
     => Negotiated(u, v)

(* ------------------------------- C29 ----------------------------------- *)
\* C29: an answer is applied to the connection that sent the offer it
\* answers: when a client that has sent exactly one offer to a peer, not yet
\* answered, handles the answer of that peer, that connection takes the
\* answer as its remote description.
C29_AnswerAppliedToOfferingLink ==
  [][\A u, v \in Users : \A k \in 1..MaxPcs :
       (/\ Receive(u)
        /\ Head(inbox[u]).event = "answer"
        /\ Head(inbox[u]).payload.fromUserId = v
        /\ OffersSent(u, v) = {k}
        /\ client[u].pcs[k].stage = "offered") =>
          client'[u].pcs[k].stage = "stable"]_vars

(* ------------------------------- C30 ----------------------------------- *)
\* C30: the step that handles an ice_candidate adds it to the connection of
\* its sender: to the connection that is answering the sender's offer when
\* there is one, else to the stored one; and with no connection for the
\* sender the candidate is dropped and nothing else changes.
C30_CandidateAppliedToLink ==
  [][\A u, v \in Users :
       (/\ Receive(u)
        /\ Head(inbox[u]).event = "ice_candidate"
        /\ Head(inbox[u]).payload.fromUserId = v) =>
          LET answering == {k \in OpenPcs(u) :
                              /\ client[u].pcs[k].target = v
                              /\ client[u].pcs[k].stage = "answering"}
          IN /\ \A k \in answering :
                  client'[u].candidate = [outcome |-> "added", pc |-> k]
             /\ (answering = {} /\ Has(client[u].links, v)
                   /\ client[u].pcs[client[u].links[v]].open)
                  => client'[u].candidate.pc = client[u].links[v]
             /\ (answering = {} /\ ~Has(client[u].links, v))
                  => client'[u] = [client[u] EXCEPT
                                     !.candidate = [outcome |-> "dropped",
                                                    pc |-> 0],
                                     !.handled = "ice_candidate"]]_vars

(* ------------------------------- C31 ----------------------------------- *)
\* C31: a link whose transport has failed once is recovered in place: while
\* the stored connection to a peer is open and has failed once, no timer of
\* the client replaces it with a new connection to that peer.
C31_FailedLinkRecoveredInPlace ==
  [][\A u, target \in Users :
       (/\ InitiateTimer(u, target)
        /\ Has(client[u].links, target)
        /\ client[u].pcs[client[u].links[target]].open
        /\ client[u].pcs[client[u].links[target]].stage = "connfailed") =>
          /\ Len(client'[u].pcs) = Len(client[u].pcs)
          /\ client'[u].links = client[u].links
          /\ client'[u].pcs[client[u].links[target]].open]_vars
(* ------------------------------- C32 ----------------------------------- *)
\* C32: once a microphone request of the session has been refused or has
\* failed, the audio feature is disabled: the isAudioEnabled flag is false,
\* the client stores no link and has no open connection, and no recogniser
\* runs or is about to restart.
C32_AudioOffWhenMicrophoneRefused ==
  \A u \in Users :
     client[u].mic = "denied" =>
        /\ ~client[u].audio
        /\ client[u].links = EmptyObject
        /\ OpenPcs(u) = {}
        /\ client[u].recog \notin {"running", "restarting"}

(* ------------------------------- C33 ----------------------------------- *)
\* C33: the step that handles an interim transcript replaces the buffered
\* text by it, leaves one promotion timer armed, sends the hub exactly one
\* subtitle event that carries the text, on the socket of the component,
\* and sends no chat_message.
C33_InterimFragmentBuffersAndSubtitles ==
  [][\A u \in Users, text \in Transcripts :
       InterimResult(u, text) =>
          /\ client'[u].pending = text
          /\ client'[u].debounce
          /\ requests' = requests
          /\ lastEvent'.kind = "subtitle"
          /\ lastEvent'.socket = client[u].socket
          /\ lastEvent'.data.userId = u
          /\ lastEvent'.data.text = text]_vars

(* ------------------------------- C34 ----------------------------------- *)
\* C34: when the promotion timer elapses over a buffered text longer than 5
\* characters, that step sends the hub exactly one chat_message with the
\* text, on the socket of the component, and leaves the speaker without
\* pending text and subtitle; an interim transcript that re-arms the timer
\* promotes nothing.
C34_TimerPromotesBufferedText ==
  [][\A u \in Users :
       /\ (PromoteSubtitle(u) /\ client[u].pending # "none"
                              /\ TextLength[client[u].pending] > 5) =>
             /\ Len(requests') = Len(requests) + 1
             /\ requests'[Len(requests')].op = "insert"
             /\ requests'[Len(requests')].socket = client[u].socket
             /\ requests'[Len(requests')].data.message = client[u].pending
             /\ requests'[Len(requests')].data.userId = u
             /\ client'[u].pending = "none"
             /\ OwnSubtitle(u)' = "none"
             /\ ~client'[u].debounce
       /\ \A text \in Transcripts :
             InterimResult(u, text) => requests' = requests]_vars

(* ------------------------------- C35 ----------------------------------- *)
\* C35: join_room is idempotent: a join_room from a session that the
\* registries already hold as joined with the same room code and user id
\* (its entry in socketRoomMap, the user resolving to it in userSockets, the
\* user in the presence set of the room) leaves socketRoomMap, userSockets
\* and roomPresence as they were.
C35_JoinIsIdempotent ==
  (/\ lastEvent.kind = "join_room"
   /\ Has(pre.socketRoomMap, lastEvent.socket)
   /\ pre.socketRoomMap[lastEvent.socket]
        = [roomCode |-> lastEvent.data.roomCode,
           userId |-> lastEvent.data.userId]
   /\ Has(pre.userSockets, lastEvent.data.userId)
   /\ pre.userSockets[lastEvent.data.userId] = lastEvent.socket
   /\ lastEvent.data.userId
        \in Elems(PresenceArray(pre.roomPresence, lastEvent.data.roomCode)))
  => Registry = pre

\* a session repeated its join_room after another user had joined the room
C35_Witness ==
  /\ lastEvent.kind = "join_room"
  /\ Has(pre.socketRoomMap, lastEvent.socket)
  /\ pre.socketRoomMap[lastEvent.socket]
       = [roomCode |-> lastEvent.data.roomCode, userId |-> lastEvent.data.userId]
  /\ pre.userSockets[lastEvent.data.userId] = lastEvent.socket
  /\ Len(pre.roomPresence[lastEvent.data.roomCode]) = 2
  /\ pre.roomPresence[lastEvent.data.roomCode][1] = lastEvent.data.userId
  /\ Registry = pre

(* ------------------------------- C36 ----------------------------------- *)
\* C36: once every session that ever connected has disconnected,
\* socketRoomMap and userSockets are empty and every presence set is empty.
C36_RegistriesEmptyAfterAllDisconnect ==
  (connected = {} /\ closed # {})
  => /\ socketRoomMap = EmptyObject
     /\ userSockets = EmptyObject
     /\ \A r \in DOMAIN roomPresence : roomPresence[r] = <<>>

(* ------------------------------- C37 ----------------------------------- *)
\* C37: each chat message a user sends, typed or promoted from speech,
\* appears once in the sender's list and once in the list of the other
\* clients of the room: every entry the sender appended on send was handed
\* to the hub as one chat_message (without which no other client can show
\* it), and no client holds more entries of a user than the hub stored and
\* echoed for that user.
C37_EachMessageOnceInEveryList ==
  \A u \in Users :
     LET own == SelectSeq(client[u].msgs, LAMBDA m : m.user_id = u)
         sent == SelectSeq(requests, LAMBDA q : q.op = "insert"
                                               /\ q.data.userId = u)
         echoed == SelectSeq(sent, LAMBDA q : q.state = "ok")
     IN /\ Len(own) = Len(sent)
        /\ \A v \in Users \ {u} :
              Len(SelectSeq(client[v].msgs, LAMBDA m : m.user_id = u))
                <= Len(echoed)

(* ------------------------------- C38 ----------------------------------- *)
\* C38: the hub relays an offer, answer or ice_candidate only when the
\* sending session is registered in a room and the session the target user
\* resolves to is registered in the same room.
C38_RelayOnlyWithinOneRoom ==
  (IsSignal /\ emitted # <<>>)
  => LET s == lastEvent.socket
         t == pre.userSockets[lastEvent.data.targetUserId]
     IN /\ Has(pre.socketRoomMap, s)
        /\ Has(pre.socketRoomMap, t)
        /\ pre.socketRoomMap[s].roomCode = pre.socketRoomMap[t].roomCode

(* ------------------------------- C39 ----------------------------------- *)
\* C39: every open connection stored in the link map of a client, made as
\* initiator or as passive side, has a track of the client's microphone
\* attached that has not been stopped.
C39_StoredLinkHasLocalTrack ==
  \A u \in Users : \A t \in DOMAIN client[u].links :
     LET pc == client[u].pcs[client[u].links[t]]
     IN pc.open => pc.track \in {"current", "older"}

(* ------------------------------- C40 ----------------------------------- *)
\* C40: while the audio of a mounted client is switched off, its transcript
\* engine is silent: it has no pending text and no armed promotion timer,
\* and the hub receives no subtitle and no chat_message from it.
C40_SilentWhileAudioOff ==
  \A u \in Users :
     (Mounted(u) /\ ~client[u].audio) =>
        /\ client[u].pending = "none"
        /\ ~client[u].debounce
        /\ ~(/\ lastEvent.kind \in {"subtitle", "chat_message"}
             /\ lastEvent.data.userId = u)
====
